---------------------------- MODULE Spec2Model ----------------------------
(***************************************************************************)
(* Vera Estrategica API v1.6.0 (src/main.py): the request handler          *)
(* analisar_projeto and the analysis core _analisar as a state machine.    *)
(*                                                                         *)
(* Text is a TLA+ string; a number is an exact decimal fraction [n, d]     *)
(* (value n/d, d a power of ten), a double or a long int, as the section   *)
(* Numbers tells; a date is [y, m, d]; an optional value is <<>> (None) or *)
(* <<v>>; a JSON value of an Any-typed field is a record tagged by "tipo": *)
(* JNull, JStr(s), JBool(b), JNum(n, d), JInt(s, ds), JFloat(s), JList(xs) *)
(* and JDict(ps), and the dicts of the request and of the field-set are    *)
(* such JDict values.  In the sentences the program emits, the             *)
(* characters outside Latin-1 are written with ASCII stand-ins: "<=" and   *)
(* ">=" for the inequality signs, "--" for the em dash, "->" for the arrow. *)
(***************************************************************************)
EXTENDS Integers, Sequences, FiniteSets, TLC

VARIABLES
    hoje,     \* the calendar date of the host (what date.today() returns)
    pedido,   \* <<>> before the first request, else <<the last request: route and body>>
    campos,   \* <<>> or <<the canonical field-set built by the handler>>
    locais,   \* <<>> or <<the values _analisar held in its local variables>>
    saida,    \* <<>> or <<the response payload of the last request>>
    analises, \* the number of times the handler has run _analisar
    features, \* the module-level dict FEATURES, shared by every request of the process
    targets,  \* the module-level dict TARGETS, shared by every request of the process
    LEAN_MODE \* the module-level flag the process read from its environment at import

vars == <<hoje, pedido, campos, locais, saida, analises, features, targets, LEAN_MODE>>

(***************************************************************************)
(* Optional values and JSON values.                                        *)
(***************************************************************************)
None == <<>>

Some(x) == <<x>>

IsNone(o) == o = <<>>

Val(o) == o[1]

JNull == [tipo |-> "null"]

JStr(s) == [tipo |-> "str", v |-> s]

JNum(n, d) == [tipo |-> "num", v |-> [n |-> n, d |-> d]]

JBool(b) == [tipo |-> "bool", v |-> b]

JDate(y, m, d) == [tipo |-> "date", v |-> [y |-> y, m |-> m, d |-> d]]

\* a JSON array: the sequence of its values
JList(xs) == [tipo |-> "list", v |-> xs]

\* a JSON object, a Python dict: the sequence of its <<key, value>> pairs in
\* the order of insertion, no key twice
JDict(ps) == [tipo |-> "dict", v |-> ps]

EmptyDict == JDict(<<>>)

\* the one-entry dict content {k: v}
Par(k, v) == <<<<k, v>>>>

\* the keys of a dict
Chaves(dict) == {dict.v[i][1] : i \in DOMAIN dict.v}

\* the outcome of x.get(k) on a value x that is no dict: the call raises
AttributeError == [tipo |-> "raise", v |-> "AttributeError"]

\* x.get(k)
Get(x, k) ==
    IF x.tipo # "dict" THEN AttributeError
    ELSE IF k \in Chaves(x) THEN x.v[CHOOSE i \in DOMAIN x.v : x.v[i][1] = k][2]
    ELSE JNull

\* d[k] = v on a dict d
DictSet(d, k, v) ==
    IF k \in Chaves(d) THEN JDict([i \in DOMAIN d.v |-> IF d.v[i][1] = k THEN <<k, v>> ELSE d.v[i]])
    ELSE JDict(d.v \o Par(k, v))

(***************************************************************************)
(* Characters and strings.                                                 *)
(***************************************************************************)
Ch(s, i) == SubSeq(s, i, i)

Min(a, b) == IF a < b THEN a ELSE b

Max(a, b) == IF a >= b THEN a ELSE b

Digits == {"0", "1", "2", "3", "4", "5", "6", "7", "8", "9"}

DigitVal(c) ==
    CASE c = "0" -> 0 [] c = "1" -> 1 [] c = "2" -> 2 [] c = "3" -> 3
      [] c = "4" -> 4 [] c = "5" -> 5 [] c = "6" -> 6 [] c = "7" -> 7
      [] c = "8" -> 8 [] c = "9" -> 9

DigitChar(k) ==
    CASE k = 0 -> "0" [] k = 1 -> "1" [] k = 2 -> "2" [] k = 3 -> "3"
      [] k = 4 -> "4" [] k = 5 -> "5" [] k = 6 -> "6" [] k = 7 -> "7"
      [] k = 8 -> "8" [] k = 9 -> "9"

\* the characters str.isspace() holds for, among those of Latin-1: tab, line
\* feed, vertical tab, form feed, carriage return, U+001C..U+001F, space,
\* U+0085 and the no-break space U+00A0
Whitespace ==
    {" ", "\t", "\n", "\r", "\f", "", "", "", "", "", "", " "}

\* k in s (Python substring test).
Contains(k, s) ==
    \E i \in 1..(Len(s) - Len(k) + 1) : SubSeq(s, i, i + Len(k) - 1) = k

\* the pairs of adjacent characters of s
Pares(s) == {SubSeq(s, i, i + 1) : i \in 1..(Len(s) - 1)}

\* any(k in s for k in ks): a keyword of two or more characters occurs in s
\* only if its first two characters are adjacent somewhere in s
AnyIn(ks, s) ==
    LET pares == Pares(s)
    IN  \E i \in 1..Len(ks) :
            /\ Len(ks[i]) < 2 \/ SubSeq(ks[i], 1, 2) \in pares
            /\ Contains(ks[i], s)

\* the characters a..b of s, each c among them replaced by r
RECURSIVE ReplaceFrom(_, _, _, _, _)
ReplaceFrom(s, c, r, a, b) ==
    IF a > b THEN ""
    ELSE IF a = b THEN (IF Ch(s, a) = c THEN r ELSE Ch(s, a))
    ELSE ReplaceFrom(s, c, r, a, (a + b) \div 2) \o ReplaceFrom(s, c, r, (a + b) \div 2 + 1, b)

\* s.replace(c, r) for a single character c.
Replace(s, c, r) == ReplaceFrom(s, c, r, 1, Len(s))

LStrip(s) ==
    IF \A i \in 1..Len(s) : Ch(s, i) \in Whitespace THEN ""
    ELSE SubSeq(s, CHOOSE i \in 1..Len(s) :
                      Ch(s, i) \notin Whitespace /\ \A k \in 1..(i - 1) : Ch(s, k) \in Whitespace,
                Len(s))

RStrip(s) ==
    IF \A i \in 1..Len(s) : Ch(s, i) \in Whitespace THEN ""
    ELSE SubSeq(s, 1, CHOOSE i \in 1..Len(s) :
                         Ch(s, i) \notin Whitespace
                         /\ \A k \in (i + 1)..Len(s) : Ch(s, k) \in Whitespace)

\* s.strip()
Strip(s) == RStrip(LStrip(s))

\* s.split(sep) for a non-empty separator: a sequence of strings.
\* the positions at or after i where sep occurs in s
Cortes(s, sep, i) ==
    {k \in i..(Len(s) - Len(sep) + 1) : SubSeq(s, k, k + Len(sep) - 1) = sep}

\* the part of s from i up to the first of the occurrences m of sep, then
\* the parts of what follows that occurrence
RECURSIVE SplitFrom(_, _, _, _)
SplitFrom(s, sep, i, m) ==
    IF m = {} THEN <<SubSeq(s, i, Len(s))>>
    ELSE <<SubSeq(s, i, (CHOOSE p \in m : \A q \in m : p <= q) - 1)>>
         \o SplitFrom(s, sep, (CHOOSE p \in m : \A q \in m : p <= q) + Len(sep),
                      Cortes(s, sep, (CHOOSE p \in m : \A q \in m : p <= q) + Len(sep)))

Split(s, sep) == SplitFrom(s, sep, 1, Cortes(s, sep, 1))

\* sep.join(xs)
RECURSIVE Join(_, _)
Join(sep, xs) ==
    IF xs = <<>> THEN ""
    ELSE IF Len(xs) = 1 THEN xs[1]
    ELSE xs[1] \o sep \o Join(sep, Tail(xs))

\* NFD decomposition followed by the removal of the combining marks (category
\* Mn), then lower(): per character, for the Latin letters of Portuguese.
Minusculas ==
    {"a", "b", "c", "d", "e", "f", "g", "h", "i", "j", "k", "l", "m", "n", "o", "p", "q",
     "r", "s", "t", "u", "v", "w", "x", "y", "z", " "}

\* a letter without mark and in lower case is kept as it is; of the other
\* characters of Latin-1, a letter with a mark decomposes into the letter and
\* the mark, which is removed, and an upper-case letter is lowered
FoldChar(c) ==
    IF c \in Minusculas THEN c ELSE
    CASE c \in {"A", "À", "Á", "Â", "Ã", "Ä", "Å", "à", "á", "â", "ã", "ä", "å"} -> "a"
      [] c \in {"E", "È", "É", "Ê", "Ë", "è", "é", "ê", "ë"} -> "e"
      [] c \in {"I", "Ì", "Í", "Î", "Ï", "ì", "í", "î", "ï"} -> "i"
      [] c \in {"O", "Ò", "Ó", "Ô", "Õ", "Ö", "ò", "ó", "ô", "õ", "ö"} -> "o"
      [] c \in {"U", "Ù", "Ú", "Û", "Ü", "ù", "ú", "û", "ü"} -> "u"
      [] c \in {"C", "Ç", "ç"} -> "c"
      [] c \in {"N", "Ñ", "ñ"} -> "n"
      [] c \in {"Y", "Ý", "ý", "ÿ"} -> "y"
      [] c = "B" -> "b" [] c = "D" -> "d" [] c = "F" -> "f" [] c = "G" -> "g"
      [] c = "H" -> "h" [] c = "J" -> "j" [] c = "K" -> "k" [] c = "L" -> "l"
      [] c = "M" -> "m" [] c = "P" -> "p" [] c = "Q" -> "q" [] c = "R" -> "r"
      [] c = "S" -> "s" [] c = "T" -> "t" [] c = "V" -> "v" [] c = "W" -> "w"
      [] c = "X" -> "x" [] c = "Z" -> "z"
      [] c = "Æ" -> "æ" [] c = "Ð" -> "ð" [] c = "Ø" -> "ø" [] c = "Þ" -> "þ"
      [] OTHER -> c

\* the characters i..j of s, folded one by one and joined again
RECURSIVE FoldFrom(_, _, _)
FoldFrom(s, i, j) ==
    IF i > j THEN ""
    ELSE IF i = j THEN FoldChar(Ch(s, i))
    ELSE FoldFrom(s, i, (i + j) \div 2) \o FoldFrom(s, (i + j) \div 2 + 1, j)

Fold(s) == FoldFrom(s, 1, Len(s))

\* normalize(s): "" for None or "", else strip(lower(unaccent(s))).
normalize(s) == IF s = "" THEN "" ELSE Strip(Fold(s))

(***************************************************************************)
(* Numbers.  A float read from decimal text of up to nine digits is held   *)
(* as the exact decimal fraction n/d it was written as (d a power of ten   *)
(* up to 10^9): float() rounds monotonically and no two decimals of fewer  *)
(* than 16 digits round to the same double, so the comparison of two such  *)
(* values, or of one with a decimal literal of the source (0.85, 0.90,     *)
(* ...), is the comparison of the exact values.  The other floats are      *)
(* d = 0 with n = 1 (inf), n = -1 (-inf), n = 0 (nan), n = 0 with d = -1   *)
(* (the negative zero -0.0), and the doubles Dbl(s, hi, lo, e) that float()*)
(* gives for any other text: the sign s (1 or -1) and the value            *)
(* (hi * 2^27 + lo) * 2^e, as in the float arithmetic below.  An int of a  *)
(* JSON value has the denominator 1; an int of ten digits or more is       *)
(* BigInt(s, ds), its sign and its decimal digits.  The integers of the    *)
(* model itself are those of 32 bits.                                      *)
(***************************************************************************)
Dec(n, d) == [n |-> n, d |-> d]

Inf == Dec(1, 0)

NegInf == Dec(-1, 0)

NaN == Dec(0, 0)

NegZero == Dec(0, -1)

Dbl(s, hi, lo, e) == [s |-> s, hi |-> hi, lo |-> lo, e |-> e]

BigInt(s, ds) == [s |-> s, ds |-> ds]

EhDec(a) == "n" \in DOMAIN a

EhDbl(a) == "hi" \in DOMAIN a

EhBigInt(a) == "ds" \in DOMAIN a

IsNaN(a) == EhDec(a) /\ a.d = 0 /\ a.n = 0

IsInf(a) == EhDec(a) /\ a.d = 0 /\ a.n # 0

\* -1, 0, 1 for -inf, a finite value, inf
Rank(a) == IF IsInf(a) THEN a.n ELSE 0

\* a finite value is below zero (-0.0 is not)
Negativo(a) == IF EhDec(a) THEN a.n < 0 ELSE a.s < 0

\* the denominator of a finite decimal (-0.0 counts as 0/1)
Den(a) == IF a.d < 0 THEN -a.d ELSE a.d

RECURSIVE Pow10(_)
Pow10(k) == IF k = 0 THEN 1 ELSE 10 * Pow10(k - 1)

AllDigits(s) == \A i \in 1..Len(s) : Ch(s, i) \in Digits

RECURSIVE NatOf(_)
NatOf(s) == IF s = "" THEN 0 ELSE 10 * NatOf(SubSeq(s, 1, Len(s) - 1)) + DigitVal(Ch(s, Len(s)))

\* str(n) of a non-negative integer.
RECURSIVE NatStr(_)
NatStr(n) == IF n < 10 THEN DigitChar(n) ELSE NatStr(n \div 10) \o DigitChar(n % 10)

\* the character c, k times
RECURSIVE Repete(_, _)
Repete(c, k) ==
    IF k <= 0 THEN "" ELSE IF k = 1 THEN c ELSE Repete(c, k \div 2) \o Repete(c, k - k \div 2)

\* s with zeros before it up to the length k
ZeroPad(s, k) == Repete("0", k - Len(s)) \o s

\* s without its leading zeros
SemZeros(s) ==
    IF \A i \in 1..Len(s) : Ch(s, i) = "0" THEN ""
    ELSE SubSeq(s, CHOOSE i \in 1..Len(s) : Ch(s, i) # "0" /\ \A k \in 1..(i - 1) : Ch(s, k) = "0",
                Len(s))

\* the place of the last character of s that is not c, 0 when there is none
UltimoNao(s, c) ==
    IF \A i \in 1..Len(s) : Ch(s, i) = c THEN 0
    ELSE CHOOSE i \in 1..Len(s) : Ch(s, i) # c /\ \A k \in (i + 1)..Len(s) : Ch(s, k) = c

\* s without its trailing zeros
SemZerosFinais(s) == SubSeq(s, 1, UltimoNao(s, "0"))

\* the digits a are below the digits b as numbers (neither has a leading zero)
NatLt(a, b) ==
    \/ Len(a) < Len(b)
    \/ /\ Len(a) = Len(b)
       /\ \E i \in 1..Len(a) :
            /\ DigitVal(Ch(a, i)) < DigitVal(Ch(b, i))
            /\ \A k \in 1..(i - 1) : Ch(a, k) = Ch(b, k)

\* the digits s with the digit at i one higher and zeros after it
IncEm(s, i) ==
    IF i = 0 THEN "1" \o Repete("0", Len(s))
    ELSE SubSeq(s, 1, i - 1) \o DigitChar(DigitVal(Ch(s, i)) + 1) \o Repete("0", Len(s) - i)

\* the digits s plus one, in the width of s or one more
IncStr(s) == IncEm(s, UltimoNao(s, "9"))

\* the digits s with the digit at i one lower and nines after it
DecEm(s, i) == SubSeq(s, 1, i - 1) \o DigitChar(DigitVal(Ch(s, i)) - 1) \o Repete("9", Len(s) - i)

\* the digits s (not all zero) minus one, in the width of s
DecStr(s) == DecEm(s, UltimoNao(s, "0"))

(***************************************************************************)
(* Float arithmetic.  The result of an operation on floats is the double   *)
(* IEEE 754 gives: the exact result rounded to 53 bits, ties to even.  A   *)
(* finite double that is not negative is [hi, lo, e]: the value            *)
(* (hi * 2^27 + lo) * 2^e, with 2^25 <= hi < 2^26 and 0 <= lo < 2^27, or   *)
(* hi = lo = e = 0 for zero; e is at most 971, and below -1074 for a       *)
(* subnormal double, whose lowest -1074 - e bits are zero.  The integers   *)
(* of up to 108 bits the exact results need are sequences of four limbs of *)
(* 27 bits, the lowest first.                                              *)
(***************************************************************************)
Potencias2 ==
    <<1, 2, 4, 8, 16, 32, 64, 128, 256, 512, 1024, 2048, 4096, 8192, 16384,
      32768, 65536, 131072, 262144, 524288, 1048576, 2097152, 4194304, 8388608, 16777216,
      33554432, 67108864, 134217728, 268435456, 536870912, 1073741824>>

\* 2^k for k in 0..30
Pot2(k) == Potencias2[k + 1]

\* the number of bits of x, for 0 <= x < 2^31
BitLen(x) == Cardinality({k \in 0..30 : Pot2(k) <= x})

Bin(hi, lo, e) == [k |-> "fin", hi |-> hi, lo |-> lo, e |-> e]

BinZero == Bin(0, 0, 0)

BinInf == [k |-> "inf", hi |-> 0, lo |-> 0, e |-> 0]

BinNaN == [k |-> "nan", hi |-> 0, lo |-> 0, e |-> 0]

\* x < y on finite doubles that are not negative
BinLt(x, y) ==
    IF y.hi = 0 THEN FALSE
    ELSE IF x.hi = 0 THEN TRUE
    ELSE \/ x.e < y.e
         \/ x.e = y.e /\ x.hi < y.hi
         \/ x.e = y.e /\ x.hi = y.hi /\ x.lo < y.lo

\* the limbs of the significand of x
WDe(x) == <<x.lo, x.hi, 0, 0>>

\* the limbs of an integer n, 0 <= n < 2^31
WInt(n) == <<n % Pot2(27), n \div Pot2(27), 0, 0>>

\* w * 2^(27 * q + t), for t in 0..26
WShlLimbs(w, q, t) ==
    [i \in 1..4 |->
        (IF i - q >= 1 THEN (w[i - q] % Pot2(27 - t)) * Pot2(t) ELSE 0)
        + (IF i - q >= 2 THEN w[i - q - 1] \div Pot2(27 - t) ELSE 0)]

\* w * 2^s
WShl(w, s) == WShlLimbs(w, s \div 27, s % 27)

\* w \div 2^(27 * q + t), for t in 0..26
WShrLimbs(w, q, t) ==
    [i \in 1..4 |->
        (IF i + q <= 4 THEN w[i + q] \div Pot2(t) ELSE 0)
        + (IF i + q + 1 <= 4 THEN (w[i + q + 1] % Pot2(t)) * Pot2(27 - t) ELSE 0)]

\* w \div 2^u
WShr(w, u) == IF u >= 108 THEN <<0, 0, 0, 0>> ELSE WShrLimbs(w, u \div 27, u % 27)

\* the lowest 27 * q + t bits of w are zero
WLowZeroLimbs(w, q, t) ==
    /\ \A i \in 1..4 : i <= q => w[i] = 0
    /\ q + 1 <= 4 => w[q + 1] % Pot2(t) = 0

WLowZero(w, v) == WLowZeroLimbs(w, v \div 27, v % 27)

\* the borrow out of the limb i of a - b: the lowest i limbs of a are below
\* those of b
WBorrow(a, b, i) ==
    IF \E j \in 1..i : a[j] < b[j] /\ \A k \in (j + 1)..i : a[k] = b[k] THEN 1 ELSE 0

\* a - b, for a >= b
WSub(a, b) ==
    [i \in 1..4 |-> (a[i] - b[i] - WBorrow(a, b, i - 1) + Pot2(27)) % Pot2(27)]

\* the carry out of the limb i of a + b
WCarry(a, b, i) ==
    IF \E j \in 1..i : a[j] + b[j] >= Pot2(27) /\ \A k \in (j + 1)..i : a[k] + b[k] = Pot2(27) - 1
        THEN 1 ELSE 0

\* a + b
WAdd(a, b) == [i \in 1..4 |-> (a[i] + b[i] + WCarry(a, b, i - 1)) % Pot2(27)]

\* the limbs from the i-th on of w * m with the carry c into them, for m <= 15
RECURSIVE WMulFrom(_, _, _, _)
WMulFrom(w, m, i, c) ==
    IF i > 4 THEN <<>>
    ELSE <<(w[i] * m + c) % Pot2(27)>> \o WMulFrom(w, m, i + 1, (w[i] * m + c) \div Pot2(27))

\* w * m, for m <= 15
WMul(w, m) == WMulFrom(w, m, 1, 0)

\* the number of bits of w
WBitLen(w) ==
    IF w[4] # 0 THEN 81 + BitLen(w[4])
    ELSE IF w[3] # 0 THEN 54 + BitLen(w[3])
    ELSE IF w[2] # 0 THEN 27 + BitLen(w[2])
    ELSE BitLen(w[1])

\* the double of the 53 bits q, plus one when up, times 2^e
BinMais(q, up, e) ==
    IF ~up THEN Bin(q[2], q[1], e)
    ELSE IF q[1] + 1 < Pot2(27) THEN Bin(q[2], q[1] + 1, e)
    ELSE IF q[2] + 1 < Pot2(26) THEN Bin(q[2] + 1, 0, e)
    ELSE Bin(Pot2(25), 0, e + 1)

\* w * 2^e without its lowest u bits (u >= 1), rounded to the nearest of the
\* two neighbours and to the even one at a tie; sticky: a part of the exact
\* value lies below the bits of w
BinCorta(w, e, u, sticky) ==
    BinMais(WShr(w, u),
            /\ WShr(w, u - 1)[1] % 2 = 1
            /\ sticky \/ ~WLowZero(w, u - 1) \/ WShr(w, u)[1] % 2 = 1,
            e + u)

\* the double nearest to w * 2^e, for w > 0 of len bits
BinDeLen(w, e, len, sticky) ==
    IF len <= 53 THEN BinMais(WShl(w, 53 - len), FALSE, e - (53 - len))
    ELSE BinCorta(w, e, len - 53, sticky)

Arredonda(w, e, sticky) == BinDeLen(w, e, WBitLen(w), sticky)

\* the double of the bits q times 2^e, zero for no bits
BinDeBits(q, e) == IF q = <<0, 0, 0, 0>> THEN BinZero ELSE Arredonda(q, e, FALSE)

\* w * 2^e without its lowest u bits, those below 2^-1074, rounded likewise
BinSubnormal(w, e, u, sticky) ==
    BinDeBits(WAdd(WShr(w, u),
                   <<IF /\ WShr(w, u - 1)[1] % 2 = 1
                        /\ sticky \/ ~WLowZero(w, u - 1) \/ WShr(w, u)[1] % 2 = 1
                        THEN 1 ELSE 0, 0, 0, 0>>),
              e + u)

\* the double nearest to w * 2^e, for w > 0: it keeps 53 bits of w, or
\* fewer when the value is below 2^-1022
ArredondaMin(w, e, sticky) ==
    IF -1074 - e >= 1 /\ -1074 - e > WBitLen(w) - 53 THEN BinSubnormal(w, e, -1074 - e, sticky)
    ELSE Arredonda(w, e, sticky)

\* c more bits of a quotient: st holds the bits q so far and the remainder r
MulDivPasso(st, d, c) ==
    [q |-> st.q * Pot2(c) + (st.r * Pot2(c)) \div d, r |-> (st.r * Pot2(c)) % d]

\* the quotient and the remainder of r * 2^k by d, for r < d < 2^30 and
\* k <= 27, taken c bits at a time, where d * 2^c < 2^31
RECURSIVE MulDiv(_, _, _, _)
MulDiv(st, k, d, c) ==
    IF st.r = 0 THEN [q |-> st.q * Pot2(k), r |-> 0]
    ELSE IF k <= c THEN MulDivPasso(st, d, k)
    ELSE MulDiv(MulDivPasso(st, d, c), k - c, d, c)

\* the next 27 bits of the binary expansion of r / d
Limb(r, d) == MulDiv([q |-> 0, r |-> r], 27, d, 31 - BitLen(d))

\* the next k limbs of 27 bits of the binary expansion of r / d
RECURSIVE Limbs(_, _, _)
LimbsDe(l, d, k) == <<l>> \o Limbs(l.r, d, k - 1)

Limbs(r, d, k) == IF k = 0 THEN <<>> ELSE LimbsDe(Limb(r, d), d, k)

\* the double nearest to int + 0.ls, for the integer part int >= 1 and the
\* two limbs ls after the point, or to 0.ls for four limbs ls
BinDeLimbs(int, ls) ==
    Arredonda(IF Len(ls) = 2 THEN <<ls[2].q, ls[1].q, int % Pot2(27), int \div Pot2(27)>>
              ELSE <<ls[4].q, ls[3].q, ls[2].q, ls[1].q>>,
              -27 * Len(ls), ls[Len(ls)].r # 0)

\* the double nearest to n / d, for 0 <= n < 2^31 and 1 <= d < 2^30
BinDe(n, d) ==
    IF n = 0 THEN BinZero ELSE BinDeLimbs(n \div d, Limbs(n % d, d, IF n >= d THEN 2 ELSE 4))

\* x - y rounded, for x > y > 0 whose exponents differ by s
BinSubDe(x, y, s) ==
    IF s > 54 THEN x ELSE Arredonda(WSub(WShl(WDe(x), s), WDe(y)), y.e, FALSE)

\* abs(x - y) on finite doubles that are not negative
BinSub(x, y) ==
    IF x = y THEN BinZero
    ELSE IF BinLt(x, y) THEN (IF x.hi = 0 THEN y ELSE BinSubDe(y, x, y.e - x.e))
    ELSE IF y.hi = 0 THEN x
    ELSE BinSubDe(x, y, x.e - y.e)

\* x + y rounded, for x >= y > 0 whose exponents differ by s
BinAddDe(x, y, s) ==
    IF s > 54 THEN x ELSE Arredonda(WAdd(WShl(WDe(x), s), WDe(y)), y.e, FALSE)

\* x, or inf when it is above the largest double
BinFinito(x) == IF x.e > 971 THEN BinInf ELSE x

\* x + y on finite doubles that are not negative
BinAdd(x, y) ==
    IF x.hi = 0 THEN y
    ELSE IF y.hi = 0 THEN x
    ELSE IF BinLt(x, y) THEN BinFinito(BinAddDe(y, x, y.e - x.e))
    ELSE BinFinito(BinAddDe(x, y, x.e - y.e))

\* x * 100 rounded
BinVezes100(x) == IF x.hi = 0 THEN BinZero ELSE Arredonda(WMul(WMul(WDe(x), 10), 10), x.e, FALSE)

\* int(x) for 0 <= x < 2^31
BinInt(x) ==
    IF x.hi = 0 THEN 0
    ELSE WShr(WDe(x), -x.e)[1] + WShr(WDe(x), -x.e)[2] * Pot2(27)

\* w * 10^k
RECURSIVE WVezes10(_, _)
WVezes10(w, k) == IF k = 0 THEN w ELSE WVezes10(WMul(w, 10), k - 1)

\* the double x > 0 is above the fraction n / 10^k
BinAcimaDe(x, n, k) == WBorrow(WShl(WInt(n), -x.e), WVezes10(WDe(x), k), 4) = 1

\* the double x > 0 is the fraction n / 10^k
BinExato(x, n, k) == WShl(WInt(n), -x.e) = WVezes10(WDe(x), k)

(***************************************************************************)
(* Decimal integers of any size, for the digits of decimal text and of     *)
(* doubles.  A natural number is the sequence of its limbs of three        *)
(* decimal digits, the lowest first, with no zero limb at the top: zero is *)
(* the empty sequence.                                                     *)
(***************************************************************************)
\* g without the zero limbs at its top
GSemTopo(g) ==
    IF \A i \in 1..Len(g) : g[i] = 0 THEN <<>>
    ELSE SubSeq(g, 1, CHOOSE i \in 1..Len(g) : g[i] # 0 /\ \A k \in (i + 1)..Len(g) : g[k] = 0)

\* the limbs of the decimal digits ds
GDe(ds) ==
    GSemTopo(SubSeq([i \in 1..((Len(ds) + 2) \div 3) |->
                        NatOf(SubSeq(ds, Max(1, Len(ds) - 3 * i + 1), Len(ds) - 3 * (i - 1)))],
                    1, (Len(ds) + 2) \div 3))

\* the limbs of n, for 0 <= n < 2^31
GDeNat(n) ==
    GSemTopo(<<n % 1000, (n \div 1000) % 1000, (n \div 1000000) % 1000, n \div 1000000000>>)

\* the digits of the limbs a..b of g, the highest first, three for each
RECURSIVE GTexto(_, _, _)
GTexto(g, a, b) ==
    IF a > b THEN ""
    ELSE IF a = b THEN ZeroPad(NatStr(g[a]), 3)
    ELSE GTexto(g, (a + b) \div 2 + 1, b) \o GTexto(g, a, (a + b) \div 2)

\* the decimal digits of g
GStr(g) == IF g = <<>> THEN "0" ELSE NatStr(g[Len(g)]) \o GTexto(g, 1, Len(g) - 1)

\* the sum of a[i] * b[k + 1 - i] for i in lo..hi
RECURSIVE GConv(_, _, _, _, _)
GConv(a, b, k, lo, hi) ==
    IF lo > hi THEN 0
    ELSE IF lo = hi THEN a[lo] * b[k + 1 - lo]
    ELSE GConv(a, b, k, lo, (lo + hi) \div 2) + GConv(a, b, k, (lo + hi) \div 2 + 1, hi)

\* the limb i of c, zero outside of c
GEm(c, i) == IF i >= 1 /\ i <= Len(c) THEN c[i] ELSE 0

\* the sums c (each below 2^31) with their digits of base 1000 moved to
\* their places: sums below 4000
GEspalha(c) ==
    SubSeq([k \in 1..(Len(c) + 3) |->
                (GEm(c, k) % 1000) + ((GEm(c, k - 1) \div 1000) % 1000)
                + ((GEm(c, k - 2) \div 1000000) % 1000) + (GEm(c, k - 3) \div 1000000000)],
           1, Len(c) + 3)

\* the sums s (each below 4000) likewise: sums below 2000
GJunta(s) ==
    SubSeq([k \in 1..(Len(s) + 1) |-> (GEm(s, k) % 1000) + (GEm(s, k - 1) \div 1000)],
           1, Len(s) + 1)

\* a carry leaves the limb i of the sums t (each below 2000)
GVaiUm(t, i) == \E j \in 1..i : t[j] >= 1000 /\ \A m \in (j + 1)..i : t[m] = 999

GCarrega(t) ==
    SubSeq([k \in 1..(Len(t) + 1) |-> (GEm(t, k) + (IF GVaiUm(t, k - 1) THEN 1 ELSE 0)) % 1000],
           1, Len(t) + 1)

\* the limbs of the number whose limb sums are c
GNormal(c) == GSemTopo(GCarrega(GJunta(GEspalha(c))))

\* a * b
GMul(a, b) ==
    IF a = <<>> \/ b = <<>> THEN <<>>
    ELSE GNormal(SubSeq([k \in 1..(Len(a) + Len(b) - 1) |->
                            GConv(a, b, k, Max(1, k + 1 - Len(b)), Min(k, Len(a)))],
                        1, Len(a) + Len(b) - 1))

\* a + b
GAdd(a, b) ==
    GNormal(SubSeq([k \in 1..Max(Len(a), Len(b)) |-> GEm(a, k) + GEm(b, k)],
                   1, Max(Len(a), Len(b))))

GQuad(a) == GMul(a, a)

\* b^k
RECURSIVE GPow(_, _)
GPow(b, k) ==
    IF k = 0 THEN <<1>>
    ELSE IF k = 1 THEN b
    ELSE GMul(IF k % 2 = 0 THEN <<1>> ELSE b, GQuad(GPow(b, k \div 2)))

\* the limbs of 2^27
Dois27 == <<728, 217, 134>>

\* the limbs of 5^27
Cinco27 == <<125, 828, 923, 596, 580, 450, 7>>

\* the digits of g * 5^27, 28 or more: g / 2^27 with 27 digits after the point
GDiv27(g) == ZeroPad(GStr(GMul(g, Cinco27)), 28)

\* g \div 2^27, from the digits d of g / 2^27
GQuo27(d) == GDe(SubSeq(d, 1, Len(d) - 27))

\* the integer that the 27 digits r after the point are as a part of 2^27
GParte27(r) == NatOf(SemZeros(SubSeq(r, 1, Len(r) - 27)))

\* g % 2^27, from the digits d of g / 2^27
GRem27(d) == GParte27(ZeroPad(GStr(GMul(GDe(SubSeq(d, Len(d) - 26, Len(d))), Dois27)), 28))

\* the n lowest limbs of 27 bits of g
RECURSIVE WLimbs(_, _)
WLimbsDe(d, n) == <<GRem27(d)>> \o WLimbs(GQuo27(d), n - 1)

WLimbs(g, n) == IF n = 0 THEN <<>> ELSE WLimbsDe(GDiv27(g), n)

\* the four limbs of 27 bits of g < 2^108
WDeG(g) == WLimbs(g, 4)

\* the decimal limbs of the limbs of 27 bits of w from the i-th on
RECURSIVE GDeWDe(_, _)
GDeWDe(w, i) ==
    GAdd(GDeNat(w[i]), IF i = Len(w) THEN <<>> ELSE GMul(Dois27, GDeWDe(w, i + 1)))

\* the decimal limbs of the limbs w of 27 bits
GDeW(w) == GDeWDe(w, 1)

\* the digits of the integer w * 2^c * 10^(-Min(c, 0))
Digitos(w, c) ==
    GStr(GMul(GDeW(w), GPow(IF c >= 0 THEN <<2>> ELSE <<5>>, IF c >= 0 THEN c ELSE -c)))

(***************************************************************************)
(* float() of decimal text.                                                *)
(***************************************************************************)
\* the upper-case form of a lower-case letter of "infinity" and "nan"
Maiuscula(c) ==
    CASE c = "i" -> "I" [] c = "n" -> "N" [] c = "f" -> "F" [] c = "t" -> "T"
      [] c = "y" -> "Y" [] c = "a" -> "A"

\* s is the lower-case word w in any mix of cases
IgualSemCaixa(s, w) ==
    Len(s) = Len(w) /\ \A i \in 1..Len(w) : Ch(s, i) \in {Ch(w, i), Maiuscula(Ch(w, i))}

\* digits with single underscores between them
DigitPart(p) ==
    /\ p # ""
    /\ \A i \in 1..Len(p) : Ch(p, i) \in Digits \cup {"_"}
    /\ Ch(p, 1) # "_"
    /\ Ch(p, Len(p)) # "_"
    /\ ~Contains("__", p)

\* the digits of a digit part
SemSublinhado(p) == Join("", Split(p, "_"))

\* the value of the exponent digits xs with the sign sx, cut at 99999
Expoente(sx, xs) ==
    (IF sx = "-" THEN -1 ELSE 1)
        * (IF Len(SemZeros(xs)) > 5 THEN 99999 ELSE NatOf(SemZeros(xs)))

\* the power of two that brings a decimal below 10^mag, and not below
\* 10^(mag - 1), to an integer part of 77 to 82 bits
EscalaBin(mag) == 80 - ((mag * 3322) \div 1000)

\* the digits of ds * 2^k, or of ds * 5^(-k) for k < 0
Escalado(ds, k) ==
    IF k = 0 THEN ds
    ELSE GStr(GMul(GDe(ds), GPow(IF k > 0 THEN <<2>> ELSE <<5>>, IF k > 0 THEN k ELSE -k)))

\* the integer part of t * 10^sh
ParteInteira(t, sh) == IF sh >= 0 THEN t \o Repete("0", sh) ELSE SubSeq(t, 1, Len(t) + sh)

\* t * 10^sh is no integer
TemResto(t, sh) == \E i \in Max(1, Len(t) + sh + 1)..Len(t) : Ch(t, i) # "0"

\* the double nearest to t * 10^sh * 2^(-k), where t * 10^sh has 77 to 82 bits
FloatEscalado(t, sh, k) == ArredondaMin(WDeG(GDe(ParteInteira(t, sh))), -k, TemResto(t, sh))

\* the float of the sign sgn and the double x that is not negative
FloatDeBin(sgn, x) ==
    IF x.hi = 0 THEN (IF sgn = "-" THEN NegZero ELSE Dec(0, 1))
    ELSE IF x.e > 971 THEN (IF sgn = "-" THEN NegInf ELSE Inf)
    ELSE Dbl(IF sgn = "-" THEN -1 ELSE 1, x.hi, x.lo, x.e)

\* the double nearest to ds * 10^e10, for digits ds with no zero at either end
FloatLongo(sgn, ds, e10) ==
    IF Len(ds) + e10 > 310 THEN (IF sgn = "-" THEN NegInf ELSE Inf)
    ELSE IF Len(ds) + e10 < -330 THEN (IF sgn = "-" THEN NegZero ELSE Dec(0, 1))
    ELSE FloatDeBin(sgn, FloatEscalado(Escalado(ds, EscalaBin(Len(ds) + e10)),
                                       e10 + Min(EscalaBin(Len(ds) + e10), 0),
                                       EscalaBin(Len(ds) + e10)))

\* the float of the sign sgn and ds * 10^e10, for digits ds with no zero at
\* either end: the decimal itself when it has up to nine digits
FloatCurto(sgn, ds, e10) ==
    IF Len(ds) <= 9 /\ e10 >= 0 /\ Len(ds) + e10 <= 9
        THEN Dec((IF sgn = "-" THEN -1 ELSE 1) * NatOf(ds) * Pow10(e10), 1)
    ELSE IF Len(ds) <= 9 /\ e10 < 0 /\ e10 >= -9
        THEN Dec((IF sgn = "-" THEN -1 ELSE 1) * NatOf(ds), Pow10(-e10))
    ELSE FloatLongo(sgn, ds, e10)

\* the float with the sign sgn, the digits ds (no leading zero, not empty)
\* and the decimal exponent e10: ds * 10^e10.
FloatDe(sgn, ds, e10) == FloatCurto(sgn, SemZerosFinais(ds), e10 + Len(ds) - Len(SemZerosFinais(ds)))

\* the float of the digits ip before the point and fp after it, times 10^x
FloatDigits(sgn, ip, fp, x) ==
    IF SemZeros(ip \o fp) = ""
        THEN (IF sgn = "-" THEN NegZero
              ELSE Dec(0, IF x = 0 /\ Len(fp) <= 9 THEN Pow10(Len(fp)) ELSE 1))
    ELSE IF x = 0 /\ Len(SemZeros(ip \o fp)) <= 9 /\ Len(fp) <= 9
        THEN Dec((IF sgn = "-" THEN -1 ELSE 1) * NatOf(SemZeros(ip \o fp)), Pow10(Len(fp)))
    ELSE FloatDe(sgn, SemZeros(ip \o fp), x - Len(fp))

\* the mantissa ps (split at the point) with the exponent x
FloatParts(sgn, ps, x) ==
    IF /\ Len(ps) <= 2
       /\ ps[1] = "" \/ DigitPart(ps[1])
       /\ Len(ps) = 1 \/ ps[2] = "" \/ DigitPart(ps[2])
       /\ ps[1] # "" \/ (Len(ps) = 2 /\ ps[2] # "")
        THEN Some(FloatDigits(sgn, SemSublinhado(ps[1]),
                              IF Len(ps) = 2 THEN SemSublinhado(ps[2]) ELSE "", x))
    ELSE None

\* the exponent part xs, after the letter e, is an optional sign and a digit
\* part
ExpoenteValido(xs) ==
    IF xs # "" /\ Ch(xs, 1) \in {"+", "-"} THEN DigitPart(SubSeq(xs, 2, Len(xs)))
    ELSE DigitPart(xs)

\* the value of the exponent part xs
ExpoenteDe(xs) ==
    IF xs # "" /\ Ch(xs, 1) \in {"+", "-"}
        THEN Expoente(Ch(xs, 1), SemSublinhado(SubSeq(xs, 2, Len(xs))))
    ELSE Expoente("+", SemSublinhado(xs))

\* the number b with the exponent letter at pe (0: there is none)
FloatNumero(sgn, b, pe) ==
    IF pe # 0 /\ ~ExpoenteValido(SubSeq(b, pe + 1, Len(b))) THEN None
    ELSE FloatParts(sgn, Split(IF pe = 0 THEN b ELSE SubSeq(b, 1, pe - 1), "."),
                    IF pe = 0 THEN 0 ELSE ExpoenteDe(SubSeq(b, pe + 1, Len(b))))

\* the text b after the sign: inf, infinity, nan in any case, or a number
FloatCorpo(sgn, b) ==
    IF IgualSemCaixa(b, "inf") \/ IgualSemCaixa(b, "infinity")
        THEN Some(IF sgn = "-" THEN NegInf ELSE Inf)
    ELSE IF IgualSemCaixa(b, "nan") THEN Some(NaN)
    ELSE FloatNumero(sgn, b,
                     IF \E i \in 1..Len(b) : Ch(b, i) \in {"e", "E"}
                         THEN CHOOSE i \in 1..Len(b) :
                                 Ch(b, i) \in {"e", "E"}
                                 /\ \A k \in 1..(i - 1) : Ch(b, k) \notin {"e", "E"}
                     ELSE 0)

\* the text s as an optional sign and the rest
FloatSigned(s) ==
    FloatCorpo(IF s # "" /\ Ch(s, 1) \in {"+", "-"} THEN Ch(s, 1) ELSE "",
               IF s # "" /\ Ch(s, 1) \in {"+", "-"} THEN SubSeq(s, 2, Len(s)) ELSE s)

\* the characters float() skips around a number: those of str.isspace()
\* but U+001C..U+001F
FloatWhitespace == Whitespace \ {"", "", "", ""}

\* s without the characters float() skips at its ends
FloatStrip(s) ==
    IF \A i \in 1..Len(s) : Ch(s, i) \in FloatWhitespace THEN ""
    ELSE SubSeq(s, CHOOSE i \in 1..Len(s) :
                      Ch(s, i) \notin FloatWhitespace
                      /\ \A k \in 1..(i - 1) : Ch(s, k) \in FloatWhitespace,
                CHOOSE i \in 1..Len(s) :
                      Ch(s, i) \notin FloatWhitespace
                      /\ \A k \in (i + 1)..Len(s) : Ch(s, k) \in FloatWhitespace)

\* float(s): surrounding whitespace, an optional sign, then inf, infinity or
\* nan, or digits with at most one point, at least one digit and an optional
\* exponent.  None stands for the ValueError.
ParseFloat(s0) == FloatSigned(FloatStrip(s0))

(***************************************************************************)
(* Comparison and difference of numbers.                                   *)
(***************************************************************************)
\* the double of a finite float, without its sign
BinAbs(a) ==
    IF EhDbl(a) THEN Bin(a.hi, a.lo, a.e) ELSE BinDe(IF a.n < 0 THEN -a.n ELSE a.n, Den(a))

\* x >= t for a double x that is not negative and an integer t >= 0
BinGeInt(x, t) == x.k = "inf" \/ (x.k = "fin" /\ ~BinLt(x, BinDe(t, 1)))

\* abs(a - b) on floats
AbsDiff(a, b) ==
    IF IsNaN(a) \/ IsNaN(b) THEN BinNaN
    ELSE IF IsInf(a) \/ IsInf(b) THEN (IF Rank(a) = Rank(b) THEN BinNaN ELSE BinInf)
    ELSE IF Negativo(a) # Negativo(b) THEN BinAdd(BinAbs(a), BinAbs(b))
    ELSE BinSub(BinAbs(a), BinAbs(b))

\* the cross products of the decimals a and b fit the integers of the model
Cabe(a, b) ==
    /\ (IF a.n < 0 THEN -a.n ELSE a.n) <= (Pot2(30) - 1 + Pot2(30)) \div Den(b)
    /\ (IF b.n < 0 THEN -b.n ELSE b.n) <= (Pot2(30) - 1 + Pot2(30)) \div Den(a)

\* the digits of the integer part of a finite number, without its sign
Piso(a) ==
    IF EhBigInt(a) THEN a.ds
    ELSE IF EhDec(a) THEN NatStr((IF a.n < 0 THEN -a.n ELSE a.n) \div Den(a))
    ELSE Digitos(IF a.e >= 0 THEN WDe(a) ELSE WShr(WDe(a), -a.e), Max(a.e, 0))

\* a finite number is no integer
TemFracao(a) ==
    IF EhBigInt(a) THEN FALSE
    ELSE IF EhDec(a) THEN a.n % Den(a) # 0
    ELSE a.e < 0 /\ ~WLowZero(WDe(a), Min(-a.e, 108))

\* x < y for the numbers x >= 0 and y >= 0 of the integer parts px and py,
\* each with a fraction or without
MenorExato(px, fx, py, fy) == NatLt(px, py) \/ (px = py /\ ~fx /\ fy)

\* abs(a) < abs(b) on finite numbers: a comparison with an int is that of
\* the exact values, one of floats that of their doubles
MenorAbs(a, b) ==
    IF EhBigInt(a) \/ EhBigInt(b) THEN MenorExato(Piso(a), TemFracao(a), Piso(b), TemFracao(b))
    ELSE BinLt(BinAbs(a), BinAbs(b))

\* a < b on finite numbers: decimals of so few digits are in the order of
\* their doubles
LtFinito(a, b) ==
    IF EhDec(a) /\ EhDec(b) /\ Cabe(a, b) THEN a.n * Den(b) < b.n * Den(a)
    ELSE IF Negativo(a) /\ ~Negativo(b) THEN TRUE
    ELSE IF ~Negativo(a) /\ Negativo(b) THEN FALSE
    ELSE MenorAbs(IF Negativo(a) THEN b ELSE a, IF Negativo(a) THEN a ELSE b)

\* a < b on numbers: false when either is nan
Lt(a, b) ==
    /\ ~IsNaN(a)
    /\ ~IsNaN(b)
    /\ IF IsInf(a) \/ IsInf(b) THEN Rank(a) < Rank(b) ELSE LtFinito(a, b)

Gt(a, b) == Lt(b, a)

\* a >= b on numbers: false when either is nan
Ge(a, b) == ~IsNaN(a) /\ ~IsNaN(b) /\ ~Lt(a, b)

\* bool(a) of a number: zero is false, nan is true
NumTruthy(a) == ~EhDec(a) \/ ~(a.n = 0 /\ a.d # 0)

\* Python truth value of a JSON value (the operand test of `or`, `and`, bool()).
Truthy(j) ==
    CASE j.tipo = "null" -> FALSE
      [] j.tipo = "str"  -> j.v # ""
      [] j.tipo = "num"  -> NumTruthy(j.v)
      [] j.tipo = "bool" -> j.v
      [] j.tipo \in {"list", "dict"} -> j.v # <<>>
      [] OTHER           -> TRUE

\* Python `a or b`.
Or(a, b) == IF Truthy(a) THEN a ELSE b

\* dict.get(k) or {}: the value under k when it is truthy, a dict or not
GetDict(dict, k) == Or(Get(dict, k), EmptyDict)

\* str(x) of a JSON value, as far as to_number and parse_date can tell the
\* difference: a number prints as a decimal that float() reads back.
Separadores(s1) ==
    IF Contains(",", s1) /\ Contains(".", s1)
        THEN Replace(Replace(s1, ".", ""), ",", ".")
    ELSE IF Contains(",", s1) THEN Replace(s1, ",", ".")
    ELSE s1

to_number_str(s0) == ParseFloat(Separadores(Replace(Replace(Strip(s0), " ", ""), "%", "")))

\* a float kept apart from the int of the same value: the denominator 10,
\* or the double from 10^8 on
ComoFloat(v) ==
    IF ~EhDec(v) \/ v.d # 1 THEN v
    ELSE IF v.n > -100000000 /\ v.n < 100000000 THEN Dec(v.n * 10, 10)
    ELSE FloatDeBin(IF v.n < 0 THEN "-" ELSE "", BinDe(IF v.n < 0 THEN -v.n ELSE v.n, 1))

\* the JSON int of ten digits or more with the sign s (1 or -1) and the digits ds
JInt(s, ds) == [tipo |-> "num", v |-> BigInt(s, ds)]

\* the JSON float that the text s writes (its repr, or any text float() reads)
JFloat(s) == [tipo |-> "num", v |-> ComoFloat(Val(ParseFloat(s)))]

\* str(x) of an int x of ten digits or more
BigIntStr(v) == (IF v.s < 0 THEN "-" ELSE "") \o v.ds

\* the value j is a text, or a number that float() has to read from its text
Textual(j) == j.tipo = "str" \/ (j.tipo = "num" /\ EhBigInt(j.v))

to_number(j) ==
    CASE j.tipo = "null" -> None
      [] Textual(j)      -> to_number_str(IF j.tipo = "str" THEN j.v ELSE BigIntStr(j.v))
      [] j.tipo = "num"  -> Some(j.v)
      [] OTHER           -> None

\* s[:-1] when s ends with "%"
SemPercentual(s) == IF s # "" /\ Ch(s, Len(s)) = "%" THEN SubSeq(s, 1, Len(s) - 1) ELSE s

percent_to_number(j) ==
    CASE j.tipo = "null" -> None
      [] Textual(j)      ->
            to_number_str(IF j.tipo = "str" THEN SemPercentual(Strip(j.v)) ELSE BigIntStr(j.v))
      [] j.tipo = "num"  -> Some(j.v)
      [] OTHER           -> None

(***************************************************************************)
(* Dates.                                                                  *)
(***************************************************************************)
IsLeap(y) == (y % 4 = 0 /\ y % 100 # 0) \/ y % 400 = 0

DaysIn(y, m) ==
    IF m = 2 THEN (IF IsLeap(y) THEN 29 ELSE 28)
    ELSE IF m \in {4, 6, 9, 11} THEN 30 ELSE 31

\* a < b on dates
DateLt(a, b) ==
    \/ a.y < b.y
    \/ a.y = b.y /\ a.m < b.m
    \/ a.y = b.y /\ a.m = b.m /\ a.d < b.d

NextDay(a) ==
    IF a.d < DaysIn(a.y, a.m) THEN [a EXCEPT !.d = a.d + 1]
    ELSE IF a.m < 12 THEN [y |-> a.y, m |-> a.m + 1, d |-> 1]
    ELSE [y |-> a.y + 1, m |-> 1, d |-> 1]

\* datetime.strptime(s, fmt).date() for the three formats of parse_date,
\* given the three fields of s in the order year, month, day.
DataValida(y, m, d) ==
    IF y >= 1 /\ m \in 1..12 /\ d >= 1 /\ d <= DaysIn(y, m)
        THEN Some([y |-> y, m |-> m, d |-> d])
    ELSE None

\* the day field is a blank and a digit: %d reads " 5" as 5
DiaComBranco(ds) == Len(ds) = 2 /\ Ch(ds, 1) = " " /\ Ch(ds, 2) \in Digits \ {"0"}

DateOf(ys, ms, ds) ==
    IF /\ Len(ys) = 4 /\ AllDigits(ys)
       /\ Len(ms) \in {1, 2} /\ AllDigits(ms)
       /\ (Len(ds) \in {1, 2} /\ AllDigits(ds)) \/ DiaComBranco(ds)
        THEN DataValida(NatOf(ys), NatOf(ms),
                        IF DiaComBranco(ds) THEN DigitVal(Ch(ds, 2)) ELSE NatOf(ds))
    ELSE None

\* the fields of s in the order year, month, day when s has three of them
DateOfFields(fs, iy, im, id) ==
    IF Len(fs) = 3 THEN DateOf(fs[iy], fs[im], fs[id]) ELSE None

\* the first of the three formats that reads s: %Y-%m-%d, %d/%m/%Y, %d-%m-%Y
PrimeiroFormato(f1, f2, f3) == IF ~IsNone(f1) THEN f1 ELSE IF ~IsNone(f2) THEN f2 ELSE f3

DateFormats(hy, sl) ==
    PrimeiroFormato(DateOfFields(hy, 1, 2, 3), DateOfFields(sl, 3, 2, 1), DateOfFields(hy, 3, 2, 1))

DateStripped(s) == DateFormats(Split(s, "-"), Split(s, "/"))

parse_date_str(s0) == DateStripped(Strip(s0))

\* a date is truthy and str() prints it in the first format; the text of
\* any other value that is no string is in none of the formats
parse_date(j) ==
    CASE j.tipo = "str" /\ j.v # "" -> parse_date_str(j.v)
      [] j.tipo = "date" -> Some(j.v)
      [] OTHER -> None

(***************************************************************************)
(* Configuration (module-level dictionaries of the source).                *)
(***************************************************************************)
\* FEATURES without enable_external_evidence, the entry the environment sets
\* and no code reads
FEATURES ==
    [enable_strategy_fit |-> TRUE, enable_lessons_learned |-> TRUE,
     enable_finance_pack |-> TRUE, enable_schedule_pack |-> TRUE,
     enable_strategic_analysis |-> TRUE]

TARGETS == [cpi |-> Dec(90, 100), spi |-> Dec(95, 100), idx_meta |-> Dec(100, 100)]

NaoInformado == "Não informado"

\* "0" for no digits
OuZero(s) == IF s = "" THEN "0" ELSE s

\* repr of the float a / 10^k > 0 that is 1e-4 or more: digits, a point, digits
ReprFixo(a, k) ==
    NatStr(a \div Pow10(k)) \o "." \o OuZero(SemZerosFinais(ZeroPad(NatStr(a % Pow10(k)), k)))

\* repr of a float below 1e-4 from its digits ds and its exponent x < 0
ReprExp(ds, x) ==
    Ch(ds, 1) \o (IF Len(ds) > 1 THEN "." \o SubSeq(ds, 2, Len(ds)) ELSE "")
    \o "e-" \o ZeroPad(NatStr(-x), 2)

\* repr of the float a / 10^k > 0: the shortest digits that read back as it
ReprPositivo(a, k) ==
    IF Len(NatStr(a)) - k <= -4 THEN ReprExp(SemZerosFinais(NatStr(a)), Len(NatStr(a)) - k - 1)
    ELSE ReprFixo(a, k)

\* repr of the float 0.ds * 10^pt > 0, for digits ds with no zero at either
\* end: with an exponent below 1e-4 and from 1e16 on
ReprDigitos(ds, pt) ==
    IF pt > 16 \/ pt <= -4
        THEN Ch(ds, 1) \o (IF Len(ds) > 1 THEN "." \o SubSeq(ds, 2, Len(ds)) ELSE "")
             \o (IF pt - 1 < 0 THEN "e-" \o ZeroPad(NatStr(1 - pt), 2)
                 ELSE "e+" \o ZeroPad(NatStr(pt - 1), 2))
    ELSE IF pt <= 0 THEN "0." \o Repete("0", -pt) \o ds
    ELSE IF pt >= Len(ds) THEN ds \o Repete("0", pt - Len(ds)) \o ".0"
    ELSE SubSeq(ds, 1, pt) \o "." \o SubSeq(ds, pt + 1, Len(ds))

\* repr of the float ds * 10^e10 > 0
ReprDecimal(ds, e10) == ReprDigitos(SemZerosFinais(SemZeros(ds)), Len(SemZeros(ds)) + e10)

\* the digits after the place q of x are above a half of that place (1), a
\* half of it (0) or below (-1)
Metade(x, q) ==
    IF q >= Len(x) THEN -1
    ELSE IF DigitVal(Ch(x, q + 1)) > 5 THEN 1
    ELSE IF DigitVal(Ch(x, q + 1)) < 5 THEN -1
    ELSE IF \E i \in (q + 2)..Len(x) : Ch(x, i) # "0" THEN 1
    ELSE 0

\* the first q digits of x round up: the rest is above a half, or a half
\* and the digit at q is odd
Sobe(x, q) ==
    \/ Metade(x, q) = 1
    \/ Metade(x, q) = 0 /\ q >= 1 /\ DigitVal(Ch(x, q)) % 2 = 1

\* the decimal of q digits nearest to x among those from lo to hi (digits
\* of one width)
MaisPerto(lo, x, hi, q) ==
    IF Sobe(x, q)
        THEN (IF SubSeq(x, 1, q) = SubSeq(hi, 1, q) THEN SubSeq(hi, 1, q)
              ELSE IncStr(SubSeq(x, 1, q)))
    ELSE IF SubSeq(x, 1, q) = SubSeq(lo, 1, q) /\ UltimoNao(lo, "0") > q
        THEN IncStr(SubSeq(lo, 1, q))
    ELSE SubSeq(x, 1, q)

\* the first place where the digits a and b (of one width) differ, or one
\* past their end
PrimeiraDiferenca(a, b) ==
    IF a = b THEN Len(a) + 1
    ELSE CHOOSE i \in 1..Len(a) : Ch(a, i) # Ch(b, i) /\ \A k \in 1..(i - 1) : Ch(a, k) = Ch(b, k)

\* the fewest digits a decimal from lo to hi can have
MenosDigitos(lo, hi) == Min(PrimeiraDiferenca(lo, hi), UltimoNao(lo, "0"))

\* repr of the decimal of the fewest digits from lo to hi, the nearest to x
\* of those, times 10^p
ReprEntre(lo, x, hi, p) ==
    ReprDecimal(MaisPerto(lo, x, hi, MenosDigitos(lo, hi)), p + Len(hi) - MenosDigitos(lo, hi))

\* repr of the double that is x * 10^p and rounds from all between lo and hi
\* (digits of integers), and from lo and hi too when its 53 bits are even
ReprLimites(lo, x, hi, par, p) ==
    IF par THEN ReprEntre(ZeroPad(lo, Len(hi)), ZeroPad(x, Len(hi)), hi, p)
    ELSE ReprEntre(ZeroPad(IncStr(lo), Len(hi)), ZeroPad(x, Len(hi)), DecStr(hi), p)

\* the power of two the limits of a double x are integers in: a quarter of
\* its last bit, or its own when it is subnormal
ReprEscala(x) == IF x.e >= -1074 THEN x.e - 2 ELSE x.e

\* the double x in that unit
ReprValor(x) == IF x.e >= -1074 THEN WShl(WDe(x), 2) ELSE WDe(x)

\* half of the step to the next double above x, in that unit
ReprMeio(x) == IF x.e >= -1074 THEN <<2, 0, 0, 0>> ELSE WShl(<<1, 0, 0, 0>>, -1075 - x.e)

\* half of the step to the next double below x: the step halves below a
\* power of two
ReprMeioAbaixo(x) ==
    IF x.e > -1074 /\ x.hi = Pot2(25) /\ x.lo = 0 THEN <<1, 0, 0, 0>> ELSE ReprMeio(x)

\* the last of the 53 bits of x is zero
ReprPar(x) ==
    IF x.e >= -1074 THEN x.lo % 2 = 0 ELSE WShr(WDe(x), -1074 - x.e)[1] % 2 = 0

\* repr of a double x > 0: the shortest digits that read back as it
ReprBin(x) ==
    ReprLimites(Digitos(WSub(ReprValor(x), ReprMeioAbaixo(x)), ReprEscala(x)),
                Digitos(ReprValor(x), ReprEscala(x)),
                Digitos(WAdd(ReprValor(x), ReprMeio(x)), ReprEscala(x)),
                ReprPar(x), Min(ReprEscala(x), 0))

\* str(x) of a float
FloatStr(v) ==
    IF EhDbl(v) THEN (IF v.s < 0 THEN "-" ELSE "") \o ReprBin(v)
    ELSE IF IsNaN(v) THEN "nan"
    ELSE IF IsInf(v) THEN (IF v.n < 0 THEN "-inf" ELSE "inf")
    ELSE IF v.n = 0 THEN (IF v.d < 0 THEN "-0.0" ELSE "0.0")
    ELSE IF v.n < 0 THEN "-" \o ReprPositivo(-v.n, Len(NatStr(v.d)) - 1)
    ELSE ReprPositivo(v.n, Len(NatStr(v.d)) - 1)

\* str(x) of a number: an int has the denominator 1 or is a BigInt, a float
\* has a larger power of ten or is inf, nan, -0.0 or a Dbl
NumStr(v) ==
    IF EhBigInt(v) THEN (IF v.s < 0 THEN "-" ELSE "") \o v.ds
    ELSE IF EhDbl(v) \/ v.d # 1 THEN FloatStr(v)
    ELSE IF v.n < 0 THEN "-" \o NatStr(-v.n)
    ELSE NatStr(v.n)

\* str(x) of a date
DateStr(a) ==
    ZeroPad(NatStr(a.y), 4) \o "-" \o ZeroPad(NatStr(a.m), 2) \o "-" \o ZeroPad(NatStr(a.d), 2)

\* the characters of Latin-1 from U+0001 on that repr() writes as \xNN, each
\* with its two hexadecimal digits: those str.isprintable() does not hold
\* for, but for tab, line feed and carriage return
NaoImprimiveis ==
    <<<<"", "01">>, <<"", "02">>, <<"", "03">>, <<"", "04">>, <<"", "05">>, <<"", "06">>,
      <<"", "07">>, <<"", "08">>, <<"", "0b">>, <<"\f", "0c">>, <<"", "0e">>, <<"", "0f">>,
      <<"", "10">>, <<"", "11">>, <<"", "12">>, <<"", "13">>, <<"", "14">>, <<"", "15">>,
      <<"", "16">>, <<"", "17">>, <<"", "18">>, <<"", "19">>, <<"", "1a">>, <<"", "1b">>,
      <<"", "1c">>, <<"", "1d">>, <<"", "1e">>, <<"", "1f">>, <<"", "7f">>, <<"", "80">>,
      <<"", "81">>, <<"", "82">>, <<"", "83">>, <<"", "84">>, <<"", "85">>, <<"", "86">>,
      <<"", "87">>, <<"", "88">>, <<"", "89">>, <<"", "8a">>, <<"", "8b">>, <<"", "8c">>,
      <<"", "8d">>, <<"", "8e">>, <<"", "8f">>, <<"", "90">>, <<"", "91">>, <<"", "92">>,
      <<"", "93">>, <<"", "94">>, <<"", "95">>, <<"", "96">>, <<"", "97">>, <<"", "98">>,
      <<"", "99">>, <<"", "9a">>, <<"", "9b">>, <<"", "9c">>, <<"", "9d">>, <<"", "9e">>,
      <<"", "9f">>, <<" ", "a0">>, <<"­", "ad">>>>

\* one character of a string inside repr(), between the quotes q
ReprChar(c, q) ==
    IF c = "\\" THEN "\\\\"
    ELSE IF c = q THEN "\\" \o q
    ELSE IF c = "\t" THEN "\\t"
    ELSE IF c = "\n" THEN "\\n"
    ELSE IF c = "\r" THEN "\\r"
    ELSE IF \E i \in DOMAIN NaoImprimiveis : NaoImprimiveis[i][1] = c
        THEN "\\x" \o NaoImprimiveis[CHOOSE i \in DOMAIN NaoImprimiveis : NaoImprimiveis[i][1] = c][2]
    ELSE c

\* the characters a..b of s as repr() writes them between the quotes q
RECURSIVE ReprChars(_, _, _, _)
ReprChars(s, q, a, b) ==
    IF a > b THEN ""
    ELSE IF a = b THEN ReprChar(Ch(s, a), q)
    ELSE ReprChars(s, q, a, (a + b) \div 2) \o ReprChars(s, q, (a + b) \div 2 + 1, b)

\* repr(s) of a string: double quotes when s holds an apostrophe and no
\* double quote, single quotes otherwise
StrRepr(s) ==
    IF Contains("'", s) /\ ~Contains("\"", s) THEN "\"" \o ReprChars(s, "\"", 1, Len(s)) \o "\""
    ELSE "'" \o ReprChars(s, "'", 1, Len(s)) \o "'"

\* repr(x) of a date
DateRepr(a) ==
    "datetime.date(" \o NatStr(a.y) \o ", " \o NatStr(a.m) \o ", " \o NatStr(a.d) \o ")"

\* repr(x): how a value prints inside the text of a list or of a dict
RECURSIVE PyRepr(_)
PyRepr(j) ==
    CASE j.tipo = "null" -> "None"
      [] j.tipo = "str"  -> StrRepr(j.v)
      [] j.tipo = "bool" -> IF j.v THEN "True" ELSE "False"
      [] j.tipo = "num"  -> NumStr(j.v)
      [] j.tipo = "date" -> DateRepr(j.v)
      [] j.tipo = "list" -> "[" \o Join(", ", [i \in DOMAIN j.v |-> PyRepr(j.v[i])]) \o "]"
      [] j.tipo = "dict" ->
            "{" \o Join(", ", [i \in DOMAIN j.v |->
                                  StrRepr(j.v[i][1]) \o ": " \o PyRepr(j.v[i][2])]) \o "}"

\* str(x) inside an f-string, for the values a name can hold.
PyStr(j) ==
    CASE j.tipo = "null" -> "None"
      [] j.tipo = "str"  -> j.v
      [] j.tipo = "bool" -> IF j.v THEN "True" ELSE "False"
      [] j.tipo = "num"  -> NumStr(j.v)
      [] j.tipo = "date" -> DateStr(j.v)
      [] j.tipo \in {"list", "dict"} -> PyRepr(j)

(***************************************************************************)
(* Risk heuristics.  A scoring function returns its score and the entries  *)
(* it appends to the trace.                                                *)
(***************************************************************************)
Pts(score, trace) == [score |-> score, trace |-> trace]

NoPts == Pts(0, <<>>)


\* r1 then r2 as branches of a decision: the larger score wins
Mais_maior(r1, r2) == Pts(IF r1.score >= r2.score THEN r1.score ELSE r2.score, r1.trace \o r2.trace)

\* r1 then r2: the scores add up, the trace entries follow each other.
Mais(r1, r2) == Pts(r1.score + r2.score, r1.trace \o r2.trace)

\* the CPI rule with closed bands: 0.85 falls in the lower band, 0.90 in the middle one
PontosCPI_fechado(cpi) ==
    IF IsNone(cpi) THEN [score |-> 0, trace |-> <<>>]
    ELSE IF ~Gt(Val(cpi), Dec(85, 100)) THEN [score |-> 5, trace |-> <<"CPI<0,85: +5">>]
    ELSE IF ~Gt(Val(cpi), Dec(90, 100)) THEN [score |-> 3, trace |-> <<"0,85<=CPI<0,90: +3">>]
    ELSE [score |-> 0, trace |-> <<>>]

\* the CPI rule of calcular_score_risco_base
PontosCPI(cpi) ==
    IF IsNone(cpi) THEN NoPts
    ELSE IF Lt(Val(cpi), Dec(85, 100)) THEN Pts(5, <<"CPI<0,85: +5">>)
    ELSE IF Lt(Val(cpi), Dec(90, 100)) THEN Pts(3, <<"0,85<=CPI<0,90: +3">>)
    ELSE NoPts

\* the SPI rule of calcular_score_risco_base
PontosSPI(spi) ==
    IF IsNone(spi) THEN NoPts
    ELSE IF Lt(Val(spi), Dec(90, 100)) THEN Pts(5, <<"SPI<0,90: +5">>)
    ELSE IF Lt(Val(spi), Dec(95, 100)) THEN Pts(3, <<"0,90<=SPI<0,95: +3">>)
    ELSE NoPts


\* the gap rule adding its points without a trace entry
PontosGap_calado(fis, fin) ==
    IF IsNone(fis) \/ IsNone(fin) THEN NoPts
    ELSE IF BinGeInt(AbsDiff(Val(fis), Val(fin)), 15) THEN Pts(2, <<>>)
    ELSE IF BinGeInt(AbsDiff(Val(fis), Val(fin)), 8) THEN Pts(1, <<>>)
    ELSE NoPts

\* the physical x financial gap rule of calcular_score_risco_base
PontosGap(fis, fin) ==
    IF IsNone(fis) \/ IsNone(fin) THEN NoPts
    ELSE LET gap == AbsDiff(Val(fis), Val(fin))
         IN  IF BinGeInt(gap, 15) THEN Pts(2, <<"Gap físico x financeiro >=15pp: +2">>)
             ELSE IF BinGeInt(gap, 8) THEN Pts(1, <<"Gap físico x financeiro >=8pp: +1">>)
             ELSE NoPts

\* the keyword list without its last entry
RiskKeywords_sem_critico ==
    <<"atraso", "licenc", "embargo", "paralis", "fornecedor", "pressao",
      "custo", "multas", "sancao", "risco", "equip">>

RiskKeywords ==
    <<"atraso", "licenc", "embargo", "paralis", "fornecedor", "pressao",
      "custo", "multas", "sancao", "risco", "equip", "critico">>

\* the keyword rule of calcular_score_risco_base
\* the number of keywords of the list found in the normalized observations
KeywordHits(obs_norm) ==
    Cardinality({i \in 1..Len(RiskKeywords) : Contains(RiskKeywords[i], obs_norm)})

\* the keyword rule without its cap of 4
PontosDeKeywords_sem_teto(pontos) ==
    IF pontos > 0 THEN [score |-> pontos, trace |-> <<>>] ELSE [score |-> 0, trace |-> <<>>]

PontosDeKeywords(pontos) ==
    IF pontos > 0
        THEN Pts(Min(4, pontos), <<"Keywords observações (+" \o NatStr(Min(4, pontos)) \o ")">>)
    ELSE NoPts

PontosKeywords(observacoes) == PontosDeKeywords(KeywordHits(normalize(observacoes)))

calcular_score_risco_base(campos_num, observacoes) ==
    Mais(Mais(Mais(PontosCPI(campos_num.cpi_num), PontosSPI(campos_num.spi_num)),
              PontosGap(campos_num.avanco_fisico_num, campos_num.avanco_financeiro_num)),
         PontosKeywords(observacoes))

IndKeys == <<"isp", "idp", "idco", "idb">>

Upper(k) ==
    CASE k = "isp" -> "ISP" [] k = "idp" -> "IDP" [] k = "idco" -> "IDCO" [] k = "idb" -> "IDB"

\* add(k, v) with the lower band closed: 0.90 falls in the +3 band
PontosIndice_fechado(k, v) ==
    IF IsNone(v) THEN [score |-> 0, trace |-> <<>>]
    ELSE IF Val(v).n * 100 <= 90 * Val(v).d THEN [score |-> 3, trace |-> <<>>]
    ELSE IF Val(v).n < Val(v).d THEN [score |-> 1, trace |-> <<>>]
    ELSE [score |-> 0, trace |-> <<>>]

\* add(k, v) of risco_por_indices
PontosIndice(k, v) ==
    IF IsNone(v) THEN NoPts
    ELSE IF Lt(Val(v), Dec(90, 100)) THEN Pts(3, <<Upper(k) \o "<0,90: +3">>)
    ELSE IF Lt(Val(v), targets.idx_meta) THEN Pts(1, <<"0,90<=" \o Upper(k) \o "<1,00: +1">>)
    ELSE Pts(0, <<Upper(k) \o ">=1,00: +0">>)

risco_por_indices(ind) ==
    Mais(Mais(Mais(PontosIndice("isp", ind.isp), PontosIndice("idp", ind.idp)),
              PontosIndice("idco", ind.idco)),
         PontosIndice("idb", ind.idb))

\* `atrasado` with the end date compared inclusively: due today counts as overdue
Atrasado_inclusive(t, d) ==
    /\ ~IsNone(t.fim)
    /\ ~DateLt(d, Val(t.fim))
    /\ (IsNone(t.pct) \/ Lt(Val(t.pct), Dec(100, 1)))

\* `atrasado` of risco_por_cronograma: the task is overdue on the day d.
Atrasado(t, d) ==
    /\ ~IsNone(t.fim)
    /\ DateLt(Val(t.fim), d)
    /\ (IsNone(t.pct) \/ Lt(Val(t.pct), Dec(100, 1)))

\* the body of the loop of risco_por_cronograma, for one task
PontosTarefa(t, d) ==
    Mais(IF Atrasado(t, d) /\ t.critica
             THEN Pts(3, <<"Tarefa crítica atrasada: " \o PyStr(t.nome) \o " (+3)">>)
         ELSE IF Atrasado(t, d)
             THEN Pts(1, <<"Tarefa atrasada: " \o PyStr(t.nome) \o " (+1)">>)
         ELSE NoPts,
         IF ~IsNone(t.pct) /\ Lt(Val(t.pct), Dec(30, 1)) /\ t.critica
             THEN Pts(1, <<"Tarefa crítica <30%: " \o PyStr(t.nome) \o " (+1)">>)
         ELSE NoPts)

\* risco_por_cronograma; d is the value date.today() returns to it.
RECURSIVE risco_por_cronograma(_, _)
risco_por_cronograma(tarefas, d) ==
    IF tarefas = <<>> THEN NoPts
    ELSE Mais(PontosTarefa(Head(tarefas), d), risco_por_cronograma(Tail(tarefas), d))

\* (baseline.get("custo") or {}).get("capex_aprovado")
BaselineCapex(baseline) == Get(GetDict(baseline, "custo"), "capex_aprovado")

\* the financial rules with the later two made to depend on the first: an
\* absent variance-at-completion skips all three
PontosFinanceiro_dependente(capex_aprovado, eac, vac, comp) ==
    IF IsNone(vac) THEN [score |-> 0, trace |-> <<>>]
    ELSE [score |-> (IF Val(vac).n < 0 THEN 3 ELSE 0)
                    + (IF ~IsNone(capex_aprovado) /\ ~IsNone(eac)
                          /\ Val(eac).n * Val(capex_aprovado).d > Val(capex_aprovado).n * Val(eac).d
                       THEN 2 ELSE 0)
                    + (IF ~IsNone(capex_aprovado) /\ ~IsNone(comp)
                          /\ Val(comp).n * Val(capex_aprovado).d > Val(capex_aprovado).n * Val(comp).d
                       THEN 2 ELSE 0),
          trace |-> <<>>]

\* the three rules of risco_por_baseline_financeiro on the parsed amounts
PontosFinanceiro(capex_aprovado, eac, vac, comp) ==
    Mais(Mais(IF ~IsNone(vac) /\ Lt(Val(vac), Dec(0, 1))
                  THEN Pts(3, <<"VAC < 0: +3">>) ELSE NoPts,
              IF ~IsNone(capex_aprovado) /\ ~IsNone(eac) /\ Gt(Val(eac), Val(capex_aprovado))
                  THEN Pts(2, <<"EAC > CAPEX aprovado: +2">>) ELSE NoPts),
         IF ~IsNone(capex_aprovado) /\ ~IsNone(comp) /\ Gt(Val(comp), Val(capex_aprovado))
             THEN Pts(2, <<"Comprometido > Aprovado: +2">>) ELSE NoPts)

risco_por_baseline_financeiro(baseline, fin) ==
    PontosFinanceiro(to_number(BaselineCapex(baseline)),
                     to_number(Get(fin, "eac")),
                     to_number(Get(fin, "vac")),
                     to_number(Or(Get(fin, "capex_comp"), Get(fin, "capex comprometido"))))

\* classificar_risco with the "Alto" threshold compared strictly
classificar_risco_estrito(score) ==
    IF score > 7 THEN "Alto"
    ELSE IF score >= 4 THEN "Médio"
    ELSE "Baixo"

classificar_risco(score) ==
    IF score >= 7 THEN "Alto"
    ELSE IF score >= 4 THEN "Médio"
    ELSE "Baixo"

(***************************************************************************)
(* Pillar inference.                                                       *)
(***************************************************************************)
Excelencia == "Excelência Organizacional"

Cliente == "Foco no Cliente"

Capital == "Alocação Estratégica de Capital"

\* [normalize(x) for x in xs]
RECURSIVE NormAll(_)
NormAll(xs) == IF xs = <<>> THEN <<>> ELSE <<normalize(Head(xs))>> \o NormAll(Tail(xs))

\* texto_base of inferir_pilar
TextoBase(c) ==
    Join(" ", <<normalize(c.observacoes), normalize(c.objetivo), normalize(c.escopo),
                Join(" ", NormAll(c.resumo_status)),
                Join(" ", NormAll(c.planos_proximo_periodo))>>)

ExcKeywords ==
    <<"processo", "estrutura", "governanca", "governança", "rituais", "metas",
      "desdobramento", "coerencia", "coerência", "execucao", "execução">>

CliKeywords ==
    <<"cliente", "experiencia", "experiência", "sla", "jornada", "confiabilidade",
      "satisfacao", "satisfação", "atendimento">>

CapKeywords ==
    <<"capex", "investimento", "priorizacao", "priorização", "retorno", "vpl", "tir",
      "payback", "disciplina de capital">>

RetornoKeywords == <<"retorno", "vpl", "tir", "payback">>

B2I(b) == IF b THEN 1 ELSE 0

Abaixo(v, alvo) == ~IsNone(v) /\ Lt(Val(v), alvo)

\* score_exc, score_cli and score_cap of inferir_pilar
PilarScoresDe(texto_base, fin_capex, campos_num, indicadores) ==
        [exc |-> 2 * B2I(AnyIn(ExcKeywords, texto_base))
                 + 2 * B2I(Abaixo(campos_num.cpi_num, targets.cpi)
                           \/ Abaixo(campos_num.spi_num, targets.spi))
                 + B2I(Abaixo(indicadores.isp, targets.idx_meta))
                 + B2I(Abaixo(indicadores.idp, targets.idx_meta))
                 + B2I(Abaixo(indicadores.idco, targets.idx_meta))
                 + B2I(Abaixo(indicadores.idb, targets.idx_meta)),
         cli |-> 2 * B2I(AnyIn(CliKeywords, texto_base)),
         cap |-> 2 * B2I(AnyIn(CapKeywords, texto_base))
                 + B2I(AnyIn(RetornoKeywords, texto_base)
                       \/ (~IsNone(fin_capex) /\ NumTruthy(Val(fin_capex))))]

PilarScores(c, campos_num, indicadores) ==
    PilarScoresDe(TextoBase(c), to_number(Get(c.financeiro, "capex_aprovado")),
                  campos_num, indicadores)

\* the insertion of a sort that is not stable: equal keys end up reversed
RECURSIVE InsertDesc_instavel(_, _)
InsertDesc_instavel(sorted, x) ==
    IF sorted = <<>> THEN <<x>>
    ELSE IF Head(sorted)[2] > x[2]
        THEN <<Head(sorted)>> \o InsertDesc_instavel(Tail(sorted), x)
    ELSE <<x>> \o sorted

\* list.sort(key=lambda x: x[1], reverse=True): stable, equal keys keep their order.
RECURSIVE InsertDesc(_, _)
InsertDesc(sorted, x) ==
    IF sorted = <<>> THEN <<x>>
    ELSE IF Head(sorted)[2] >= x[2] THEN <<Head(sorted)>> \o InsertDesc(Tail(sorted), x)
    ELSE <<x>> \o sorted

RECURSIVE SortDesc(_)
SortDesc(xs) ==
    IF xs = <<>> THEN <<>>
    ELSE InsertDesc(SortDesc(SubSeq(xs, 1, Len(xs) - 1)), xs[Len(xs)])

\* a selection that falls back to the head of the trio when every score is zero
EscolherPilar_padrao(ps) ==
    IF ps.cli > ps.exc /\ ps.cli >= ps.cap THEN <<"Foco no Cliente">>
    ELSE IF ps.cap > ps.exc /\ ps.cap > ps.cli THEN <<"Alocação Estratégica de Capital">>
    ELSE <<"Excelência Organizacional">>

\* the selection at the end of inferir_pilar: None or the head of the sorted trio
EscolherPilar(ps) ==
    LET trio == SortDesc(<<<<Excelencia, ps.exc>>, <<Cliente, ps.cli>>, <<Capital, ps.cap>>>>)
    IN  IF trio[1][2] = 0 THEN None ELSE Some(trio[1][1])

\* inferir_pilar: the suggestion and the entries it appends to the trace
Sugestao(ps, sug, campos_num) ==
    LET t1  == IF Abaixo(campos_num.cpi_num, targets.cpi) \/ Abaixo(campos_num.spi_num, targets.spi)
                   THEN <<"ECK hint->Excelência (CPI/SPI abaixo do target)">> ELSE <<>>
        t2  == IF IsNone(sug) THEN <<>>
               ELSE <<"ECK sugerido: " \o Val(sug) \o " (E=" \o NatStr(ps.exc) \o ", C="
                      \o NatStr(ps.cli) \o ", K=" \o NatStr(ps.cap) \o ")">>
    IN  [pilar |-> sug, trace |-> t1 \o t2, scores |-> ps]

InferirDe(ps, campos_num) == Sugestao(ps, EscolherPilar(ps), campos_num)

inferir_pilar(c, campos_num, indicadores) ==
    InferirDe(PilarScores(c, campos_num, indicadores), campos_num)

(***************************************************************************)
(* Strategy fit.                                                           *)
(***************************************************************************)
\* texto of strategy_fit
TextoFit(c) ==
    Join(" ", <<normalize(c.objetivo), Join(" ", NormAll(c.resumo_status)),
                normalize(c.escopo), normalize(c.observacoes),
                Join(" ", NormAll(c.planos_proximo_periodo))>>)

FitExcKeywords ==
    <<"processo", "estrutura", "governanca", "rituais", "metas", "desdobramento",
      "coerencia", "execucao">>

FitCliKeywords ==
    <<"cliente", "experiencia", "sla", "jornada", "confiabilidade", "satisfacao",
      "atendimento">>

FitCapKeywords == <<"capex", "investimento", "priorizacao", "retorno", "vpl", "tir", "payback">>

\* score_exc, score_cli and score_cap of strategy_fit
FitScores(texto, campos_num, indicadores) ==
    [exc |-> 20 * B2I(AnyIn(FitExcKeywords, texto))
             + 10 * B2I(Abaixo(campos_num.cpi_num, targets.cpi))
             + 10 * B2I(Abaixo(campos_num.spi_num, targets.spi))
             + 5 * B2I(Abaixo(indicadores.isp, targets.idx_meta))
             + 5 * B2I(Abaixo(indicadores.idp, targets.idx_meta))
             + 5 * B2I(Abaixo(indicadores.idco, targets.idx_meta))
             + 5 * B2I(Abaixo(indicadores.idb, targets.idx_meta)),
     cli |-> 20 * B2I(AnyIn(FitCliKeywords, texto)),
     cap |-> 20 * B2I(AnyIn(FitCapKeywords, texto))]

\* a percentage rounded to the nearest integer instead of truncated
FitPercentual_arredondado(top, raw_sum) == (200 * top + raw_sum) \div (2 * raw_sum)



\* int(min(100, max(0, (top / max(1, raw_sum)) * 100))) for top >= 0 and
\* raw_sum >= 1: the quotient and the product are floats
FitPercentual(top, raw_sum) == Min(100, BinInt(BinVezes100(BinDe(top, raw_sum))))

\* the result of strategy_fit from the sum and the sorted trio
FitResultado(raw_sum, trio) ==
    IF raw_sum = 0
        THEN [score |-> Some(0), pilar_sugerido |-> None,
              justificativa |-> Some("Sem sinais suficientes.")]
    ELSE [score |-> Some(FitPercentual(trio[1][2], raw_sum)),
          pilar_sugerido |-> Some(trio[1][1]),
          justificativa |-> Some("Pilar com maior evidência nos textos do projeto.")]

FitDe(ps) ==
    FitResultado(ps.exc + ps.cli + ps.cap,
                 SortDesc(<<<<Excelencia, ps.exc>>, <<Cliente, ps.cli>>, <<Capital, ps.cap>>>>))

strategy_fit(c, campos_num, indicadores) ==
    IF ~features.enable_strategy_fit
        THEN [score |-> None, pilar_sugerido |-> None, justificativa |-> None]
    ELSE FitDe(FitScores(TextoFit(c), campos_num, indicadores))

(***************************************************************************)
(* Contextual language layer.                                              *)
(***************************************************************************)
\* [p.strip() for p in parts]
RECURSIVE StripAll(_)
StripAll(xs) == IF xs = <<>> THEN <<>> ELSE <<Strip(Head(xs))>> \o StripAll(Tail(xs))

\* [p for p in parts if p]
RECURSIVE NonEmpty(_)
NonEmpty(xs) ==
    IF xs = <<>> THEN <<>>
    ELSE (IF Head(xs) # "" THEN <<Head(xs)>> ELSE <<>>) \o NonEmpty(Tail(xs))


\* the comma tried before the semicolon
StakeSeps_virgula_primeiro == <<",", ";", "\\n", "\n">>

StakeSeps == <<";", ",", "\\n", "\n">>

split_stakeholders(stakeholders) ==
    IF stakeholders = "" \/ stakeholders = NaoInformado THEN <<>>
    ELSE LET found == {i \in 1..Len(StakeSeps) : Contains(StakeSeps[i], stakeholders)}
             first == CHOOSE i \in found : \A j \in found : i <= j
             parts == IF found = {} THEN <<Strip(stakeholders)>>
                      ELSE StripAll(Split(stakeholders, StakeSeps[first]))
         IN  NonEmpty(parts)

\* the test of the loop of _first_delayed_critical_task, on the day d
CriticaAtrasada(t, d) == t.critica /\ Atrasado(t, d)

\* _first_delayed_critical_task; d is the value date.today() returns to it.
RECURSIVE first_delayed_critical_task(_, _)
first_delayed_critical_task(tarefas, d) ==
    IF tarefas = <<>> THEN None
    ELSE IF CriticaAtrasada(Head(tarefas), d)
        THEN Some(PyStr(Or(Head(tarefas).nome, JStr("tarefa crítica"))))
    ELSE first_delayed_critical_task(Tail(tarefas), d)

\* the entries of a list of (condition, text) pairs whose condition holds
RECURSIVE Quando(_)
Quando(pairs) ==
    IF pairs = <<>> THEN <<>>
    ELSE (IF Head(pairs)[1] THEN <<Head(pairs)[2]>> ELSE <<>>) \o Quando(Tail(pairs))

regulatory_flags(obs_norm) ==
    Quando(<<<<Contains("licenc", obs_norm), "licenças pendentes">>,
             <<Contains("embargo", obs_norm), "embargo/interdição">>,
             <<Contains("paralis", obs_norm), "paralisação de frentes">>>>)

\* the order-preserving removal of repeated entries that closes
\* riscos_chave_contextual and gerar_recomendacoes_contextuais
RECURSIVE DedupFrom(_, _)
DedupFrom(xs, seen) ==
    IF xs = <<>> THEN <<>>
    ELSE IF Head(xs) \in seen THEN DedupFrom(Tail(xs), seen)
    ELSE <<Head(xs)>> \o DedupFrom(Tail(xs), seen \cup {Head(xs)})

RECURSIVE Reverse(_)
Reverse(xs) == IF xs = <<>> THEN <<>> ELSE Append(Reverse(Tail(xs)), Head(xs))

\* a removal of repeated entries that does not keep the order of the list
Dedup_sem_ordem(xs) == Reverse(DedupFrom(xs, {}))

Dedup(xs) == DedupFrom(xs, {})

\* " (a; b)" when the list of reasons is not empty
Parenteses(bits) == IF bits = <<>> THEN "" ELSE " (" \o Join("; ", bits) \o ")"

\* the integer part int and the hundredths c (which may be 100) as text
Centesimos(int, c) ==
    IF c = 100 THEN NatStr(int + 1) \o ".00"
    ELSE NatStr(int) \o "." \o DigitChar(c \div 10) \o DigitChar(c % 10)

\* the float a / 10^k, which lies halfway between two hundredths as a
\* decimal, rounds up: its double is above the decimal, or is the decimal and
\* the hundredths c below it are odd
MeioSobe(a, k, c) ==
    \/ BinAcimaDe(BinDe(a, Pow10(k)), a, k)
    \/ BinExato(BinDe(a, Pow10(k)), a, k) /\ c % 2 = 1

\* the hundredths of a / 10^k > 0 for k > 2, from its integer part, its
\* fraction r in units of 10^-k and u = 10^(k - 2)
Fmt2Longo(a, k, int, r, u) ==
    Centesimos(int, r \div u
                    + (IF 2 * (r % u) > u \/ (2 * (r % u) = u /\ MeioSobe(a, k, r \div u))
                          THEN 1 ELSE 0))

\* f"{x:.2f}" of the float a / 10^k >= 0
Fmt2Positivo(a, k) ==
    IF k <= 2 THEN Centesimos(a \div Pow10(k), (a % Pow10(k)) * Pow10(2 - k))
    ELSE Fmt2Longo(a, k, a \div Pow10(k), a % Pow10(k), Pow10(k - 2))

\* the hundredths h (digits) as text
Fmt2Texto(h) == SubSeq(h, 1, Len(h) - 2) \o "." \o SubSeq(h, Len(h) - 1, Len(h))

\* the digits x, of which the last t (fewer than all) lie below the
\* hundredths, rounded to the hundredths
Fmt2Corta(x, t) ==
    IF Sobe(x, Len(x) - t) THEN IncStr(SubSeq(x, 1, Len(x) - t)) ELSE SubSeq(x, 1, Len(x) - t)

\* f"{x:.2f}" of the integer of the digits xs times 10^p, for p <= 0
Fmt2Digitos(xs, p) ==
    IF p >= -2 THEN Fmt2Texto(ZeroPad(SemZeros(xs \o Repete("0", p + 2)), 3))
    ELSE Fmt2Texto(ZeroPad(SemZeros(Fmt2Corta(ZeroPad(xs, -p - 1), -p - 2)), 3))

\* f"{v:.2f}" of a float: the double of v rounded to the nearest hundredth
Fmt2(v) ==
    IF EhDbl(v) THEN (IF v.s < 0 THEN "-" ELSE "") \o Fmt2Digitos(Digitos(WDe(v), v.e), Min(v.e, 0))
    ELSE IF IsNaN(v) THEN "nan"
    ELSE IF IsInf(v) THEN (IF v.n < 0 THEN "-inf" ELSE "inf")
    ELSE (IF v.n < 0 \/ v.d < 0 THEN "-" ELSE "")
         \o Fmt2Positivo(IF v.n < 0 THEN -v.n ELSE v.n, Len(NatStr(Den(v))) - 1)

RiscoMapping ==
    <<<<"licenc", "Regulatório: risco de licenças/autorizações.">>,
      <<"embargo", "Regulatório: risco de embargo/interdição.">>,
      <<"paralis", "Operação: risco de paralisação de frentes.">>,
      <<"fornecedor", "Suprimentos: dependência de fornecedor crítico.">>,
      <<"equip", "Técnico: fornecimento de equipamentos sensível.">>,
      <<"critico", "Incidência de itens críticos.">>,
      <<"risco", "Riscos adicionais reportados.">>>>

\* the loop over `mapping` of riscos_chave_contextual, from its entry i on
RECURSIVE RiscosObs(_, _, _)
RiscosObs(obs_n, i, seen) ==
    IF i > Len(RiscoMapping) THEN <<>>
    ELSE IF Contains(RiscoMapping[i][1], obs_n) /\ RiscoMapping[i][2] \notin seen
        THEN <<RiscoMapping[i][2]>> \o RiscosObs(obs_n, i + 1, seen \cup {RiscoMapping[i][2]})
    ELSE RiscosObs(obs_n, i + 1, seen)

\* the index sentences of riscos_chave_contextual
RiscoIndice(k, v) ==
    IF Abaixo(v, targets.idx_meta)
        THEN <<"Índice " \o Upper(k) \o " abaixo de 1,00 (" \o Fmt2(Val(v)) \o ").">>
    ELSE <<>>

\* the sentences of riscos_chave_contextual, from the values it reads first
RiscosDe(cpi, spi, fis, finv, obs_n, delayed, vac, eac, capex_aprovado, comp, indicadores) ==
    LET cause == Quando(<<
            <<~IsNone(vac) /\ Lt(Val(vac), Dec(0, 1)), "VAC negativo">>,
            <<~IsNone(eac) /\ ~IsNone(capex_aprovado) /\ Gt(Val(eac), Val(capex_aprovado)),
              "EAC>CAPEX">>,
            <<~IsNone(comp) /\ ~IsNone(capex_aprovado) /\ Gt(Val(comp), Val(capex_aprovado)),
              "Comprometido>aprovado">>>>)
        motivo == (IF IsNone(delayed) THEN <<>>
                   ELSE <<"tarefa crítica atrasada: " \o Val(delayed)>>)
                  \o regulatory_flags(obs_n)
        custo == IF IsNone(cpi) THEN <<>>
                 ELSE IF Lt(Val(cpi), Dec(85, 100))
                     THEN <<"Custo: CPI < 0,85 -- forte risco orçamentário"
                            \o Parenteses(cause) \o ".">>
                 ELSE IF Lt(Val(cpi), targets.cpi)
                     THEN <<"Custo: CPI entre 0,85 e 0,90 -- pressão de custos.">>
                 ELSE <<>>
        prazo == IF IsNone(spi) THEN <<>>
                 ELSE IF Lt(Val(spi), Dec(90, 100))
                     THEN <<"Prazo: SPI < 0,90 -- alto risco de atraso"
                            \o Parenteses(motivo) \o ".">>
                 ELSE IF Lt(Val(spi), targets.spi)
                     THEN <<"Prazo: SPI entre 0,90 e 0,95 -- risco de deslizamento.">>
                 ELSE <<>>
        exec == IF IsNone(fis) \/ IsNone(finv) THEN <<>>
                ELSE IF BinGeInt(AbsDiff(Val(fis), Val(finv)), 15)
                    THEN <<"Execução: gap físico x financeiro >=15pp -- possível inconsistência de medição (auditar critérios).">>
                ELSE IF BinGeInt(AbsDiff(Val(fis), Val(finv)), 8)
                    THEN <<"Execução: gap físico x financeiro >=8pp -- atenção à coerência de medição.">>
                ELSE <<>>
    IN  custo \o prazo \o exec
        \o RiscoIndice("isp", indicadores.isp) \o RiscoIndice("idp", indicadores.idp)
        \o RiscoIndice("idco", indicadores.idco) \o RiscoIndice("idb", indicadores.idb)
        \o RiscosObs(obs_n, 1, {})

\* the list `riscos` of riscos_chave_contextual before the final removal of
\* repeated entries; d is the value date.today() returns to it.
RiscosGerados(campos_num, tarefas, baseline, fin, observacoes, indicadores, d) ==
    RiscosDe(campos_num.cpi_num, campos_num.spi_num,
             campos_num.avanco_fisico_num, campos_num.avanco_financeiro_num,
             normalize(observacoes),
             first_delayed_critical_task(tarefas, d),
             to_number(Get(fin, "vac")), to_number(Get(fin, "eac")),
             to_number(BaselineCapex(baseline)),
             to_number(Or(Get(fin, "capex_comp"), Get(fin, "capex comprometido"))),
             indicadores)

riscos_chave_contextual(campos_num, tarefas, baseline, fin, observacoes, indicadores, d) ==
    Dedup(RiscosGerados(campos_num, tarefas, baseline, fin, observacoes, indicadores, d))

\* owners[:3]
Take(xs, k) == SubSeq(xs, 1, Min(k, Len(xs)))

\* the sentences of gerar_recomendacoes_contextuais, from the values it reads first
RecsDe(obs_n, cpi, spi, gap_pf, vac, eac, capex_aprovado, delayed, pf, owners) ==
    LET prazo == IF Abaixo(spi, targets.spi)
                 THEN Quando(<<
                     <<~IsNone(delayed),
                       "Replanejar caminho crítico e atacar "
                       \o (IF IsNone(delayed) THEN "" ELSE Val(delayed))
                       \o " com dono e data (D+5).">>,
                     <<Contains("licenc", obs_n) \/ Contains("embargo", obs_n),
                       "Acionar frente regulatória/jurídica para destravar licenças/embargos (D+3).">>>>)
                 ELSE <<>>
        custo == IF Abaixo(cpi, targets.cpi)
                    /\ ((~IsNone(vac) /\ Lt(Val(vac), Dec(0, 1)))
                        \/ (~IsNone(eac) /\ ~IsNone(capex_aprovado)
                            /\ Gt(Val(eac), Val(capex_aprovado))))
                 THEN <<"Instalar ou reforçar Change Control Board e rebaselinar financeiro (D+10).">>
                 ELSE <<>>
        gap == IF IsNone(gap_pf) THEN <<>>
               ELSE IF BinGeInt(Val(gap_pf), 15)
                   THEN <<"Auditar critérios de medição físico x financeiro (>=15pp) e unificar regras (D+7).">>
               ELSE IF BinGeInt(Val(gap_pf), 8)
                   THEN <<"Alinhar critérios de medição físico x financeiro (>=8pp) (D+10).">>
               ELSE <<>>
        resto == Quando(<<
            <<Contains("fornecedor", obs_n),
              "Conduzir reunião executiva com fornecedor crítico e plano 5W2H/contingência (D+3).">>,
            <<Contains("excelencia", pf),
              "Implantar rituais semanais de performance com metas desdobradas e RACI claro (D+7).">>,
            <<Contains("cliente", pf),
              "Mapear jornada do cliente e ajustar SLAs de comunicação/serviço (D+15).">>,
            <<Contains("alocacao", pf),
              "Revisar business case (VPL/TIR ajustados a risco) e repriorizar CAPEX (D+20).">>,
            <<owners # <<>>,
              "Owners sugeridos: " \o Join(", ", Take(owners, 3)) \o ".">>>>)
    IN  prazo \o custo \o gap \o resto

\* abs(fis - finv) when both are known
GapPF(fis, finv) ==
    IF IsNone(fis) \/ IsNone(finv) THEN None ELSE Some(AbsDiff(Val(fis), Val(finv)))

\* the list `recs` of gerar_recomendacoes_contextuais before the final
\* removal of repeated entries; d is the value date.today() returns to it.
RecsGeradas(c, campos_num, tarefas, baseline, fin, observacoes, pilar_foco, d) ==
    RecsDe(normalize(observacoes), campos_num.cpi_num, campos_num.spi_num,
           GapPF(campos_num.avanco_fisico_num, campos_num.avanco_financeiro_num),
           to_number(Get(fin, "vac")), to_number(Get(fin, "eac")),
           to_number(BaselineCapex(baseline)),
           first_delayed_critical_task(tarefas, d),
           normalize(pilar_foco),
           split_stakeholders(c.stakeholders))

gerar_recomendacoes_contextuais(c, campos_num, tarefas, baseline, fin, observacoes, pilar_foco, d) ==
    Dedup(RecsGeradas(c, campos_num, tarefas, baseline, fin, observacoes, pilar_foco, d))

(***************************************************************************)
(* Strategic analysis.                                                     *)
(***************************************************************************)
\* texto of analise_estrategica_textual
TextoAnalise(c) ==
    Join(" ", <<normalize(c.objetivo), normalize(c.observacoes), normalize(c.escopo),
                Join(" ", NormAll(c.resumo_status)),
                Join(" ", NormAll(c.planos_proximo_periodo))>>)

\* _classificar_portfolio: the portfolio fit and its message
classificar_portfolio(t) ==
    IF AnyIn(<<"transmissao", "transmissão", "lt", "linhas de transmissao", "subestacao",
               "subestação", "uhe", "hidreletrica", "hidrelétrica", "eolico onshore",
               "eólico onshore", "solar onshore", "geracao", "geração", "rm transmissao",
               "rm geração">>, t)
        THEN <<"Core", "Aderente ao core (Transmissão/Geração renovável e O&M).">>
    ELSE IF AnyIn(<<"armazenamento", "bateria", "adicao de potencia", "adição de potência",
                    "repotenciacao", "repotenciação", "modernizacao", "modernização",
                    "eficiencia energetica", "eficiência energética", "gestao de ativos",
                    "gestão de ativos", "ppa corporativo", "contratos corporativos">>, t)
        THEN <<"Opcionalidade",
               "Adjacências que ampliam o portfólio (armazenamento/repotenciação/eficiência).">>
    ELSE IF AnyIn(<<"eolica offshore", "eólica offshore", "hidrogenio verde",
                    "hidrogênio verde", "datacenter", "data center", "telecom", "criptomoeda",
                    "crypto", "internacionalizacao", "internacionalização", "gd flutuante",
                    "offshore", "h2v">>, t)
        THEN <<"Exploratório", "Trilhas emergentes com maturidade setorial em evolução.">>
    ELSE <<"Indefinido", "Sem sinais setoriais claros no texto.">>

\* the penalty of a risk classified "Médio" left out
ScoreFinal_sem_medio(base, divergente, classificacao_risco) ==
    LET soma == base - (IF Truthy(divergente) THEN 10 ELSE 0)
                     - (IF classificacao_risco = "Alto" THEN 20 ELSE 0)
    IN  IF soma < 0 THEN 0 ELSE Min(100, soma)

\* score_final: max(0, min(100, base + ajuste))
ScoreFinal(base, divergente, classificacao_risco) ==
    LET soma == base - (IF Truthy(divergente) THEN 10 ELSE 0)
                     - (IF classificacao_risco = "Alto" THEN 20
                        ELSE IF classificacao_risco = "Médio" THEN 10 ELSE 0)
    IN  IF soma < 0 THEN 0 ELSE Min(100, soma)

\* alinhamento and motivo_alinhamento
Alinhamento(score_final, portfolio_fit) ==
    IF score_final >= 60 /\ portfolio_fit \in {"Core", "Opcionalidade"}
        THEN <<"Alinhado", "coerente com a Visão 2028/E-C-K para o portfólio atual.">>
    ELSE IF score_final >= 40
        THEN <<"Parcialmente alinhado",
               "há aderência parcial; é preciso ajustar premissas/escopo para elevar o fit.">>
    ELSE <<"Não alinhado", "baixo fit estratégico e/ou riscos elevados para o momento.">>

\* rota and rota_msg
RotaRecomendada(classificacao_risco, alinhamento) ==
    IF classificacao_risco = "Alto" /\ alinhamento # "Alinhado"
        THEN <<"Pausar/Pivotar",
               "Pausar compromissos irreversíveis e pivotar escopo para elevar alinhamento e reduzir risco.">>
    ELSE IF classificacao_risco = "Alto"
        THEN <<"Seguir com salvaguardas",
               "Manter andamento com gates de decisão e mitigadores de prazo/custo.">>
    ELSE IF classificacao_risco = "Médio"
        THEN <<"Seguir",
               "Prosseguir com controle ativo (EVM/rituais) e validação de hipóteses de cliente/retorno.">>
    ELSE IF alinhamento = "Alinhado"
        THEN <<"Acelerar", "Capturar ganhos rápidos no pilar de foco.">>
    ELSE <<"Seguir", "Seguir plano com monitoramento padrão.">>

\* xs[:1] or [padrao]
PrimeiroOu(xs, padrao) == IF xs = <<>> THEN padrao ELSE <<xs[1]>>

\* the result of analise_estrategica_textual from the values it derived
AnaliseDe(portfolio, score_final, al, rota, pilar_foco, pf) ==
    [alinhamento |-> al[1], motivo_alinhamento |-> al[2],
     portfolio_fit |-> portfolio[1], portfolio_msg |-> portfolio[2],
     faz_sentido |-> IF al[1] = "Alinhado" THEN "Sim"
                     ELSE IF al[1] = "Parcialmente alinhado" THEN "Parcialmente" ELSE "Não",
     rota_recomendada |-> rota[1], rota_msg |-> rota[2],
     recomendacoes_continuar |->
         (IF LEAN_MODE THEN PrimeiroOu(Quando(<<
              <<Contains("cliente", pf), "Aprofundar entendimento de necessidades e SLAs do cliente.">>,
              <<Contains("excelencia", pf), "Manter rituais de performance e coerência entre áreas.">>,
              <<Contains("alocacao", pf), "Reforçar disciplina de capital e revisão de business case.">>>>),
              <<"Manter disciplina no pilar de foco.">>)
          ELSE Quando(<<
              <<Contains("cliente", pf), "Aprofundar entendimento de necessidades e SLAs do cliente.">>,
              <<Contains("excelencia", pf), "Manter rituais de performance e coerência entre áreas.">>,
              <<Contains("alocacao", pf), "Reforçar disciplina de capital e revisão de business case.">>>>)),
     recomendacoes_ajustar |->
         (IF al[1] = "Parcialmente alinhado"
              THEN <<"Reenquadrar escopo/premissas para o pilar de foco e conectar entregas à Visão 2028.">>
          ELSE IF LEAN_MODE THEN <<"Ajustar premissas para elevar o fit.">> ELSE <<>>),
     recomendacoes_parar |->
         (IF al[1] = "Não alinhado"
              THEN <<"Evitar CAPEX relevante até elevar o fit estratégico e mitigar riscos principais.">>
          ELSE <<>>),
     pilar_estrategico_foco |-> pilar_foco,
     score_interno |-> score_final]

AnaliseCom(portfolio, score_final, al, classificacao_risco, pilar_foco) ==
    AnaliseDe(portfolio, score_final, al, RotaRecomendada(classificacao_risco, al[1]),
              pilar_foco, normalize(pilar_foco))

AnalisePontuada(portfolio, score_final, classificacao_risco, pilar_foco) ==
    AnaliseCom(portfolio, score_final, Alinhamento(score_final, portfolio[1]),
               classificacao_risco, pilar_foco)


\* the focus pillar that lets the declaration prevail over the inference
PilarFoco_declarado(pilar_declarado, pilar_sugerido) ==
    IF pilar_declarado # NaoInformado \/ IsNone(pilar_sugerido) THEN pilar_declarado
    ELSE Val(pilar_sugerido)

\* pilar_sugerido or pilar_declarado
PilarFoco(pilar_declarado, pilar_sugerido) ==
    IF ~IsNone(pilar_sugerido) /\ Val(pilar_sugerido) # "" THEN Val(pilar_sugerido)
    ELSE pilar_declarado

analise_estrategica_textual(c, strategy, classificacao_risco, divergente, pilar_declarado, pilar_sugerido) ==
    AnalisePontuada(classificar_portfolio(TextoAnalise(c)),
                    ScoreFinal(IF IsNone(strategy.score) THEN 0 ELSE Val(strategy.score),
                               divergente, classificacao_risco),
                    classificacao_risco, PilarFoco(pilar_declarado, pilar_sugerido))

(***************************************************************************)
(* Lessons learned.                                                        *)
(***************************************************************************)
\* one item of gerar_licoes_aprendidas
Licao(problema, causa_raiz, contramedida, owner, prazo, categoria) ==
    [problema |-> problema, causa_raiz |-> causa_raiz, contramedida |-> contramedida,
     owner |-> owner, prazo |-> prazo, categoria |-> categoria]

\* owners[0] if owners else "PMO/Projeto"
PrimeiroOwner(owners) == IF owners # <<>> THEN owners[1] ELSE "PMO/Projeto"

\* the test of the loop of gerar_licoes_aprendidas, on the day d
LicaoAtrasada(t, d) ==
    /\ t.critica
    /\ ~IsNone(t.fim)
    /\ DateLt(Val(t.fim), d)
    /\ Lt(IF IsNone(t.pct) \/ ~NumTruthy(Val(t.pct)) THEN Dec(0, 1) ELSE Val(t.pct), Dec(100, 1))

LicaoDaTarefa(t, owner) ==
    Licao("Tarefa crítica atrasada: " \o PyStr(t.nome) \o ".",
          "Sequenciamento de frentes e restrições não modeladas.",
          "Remover restrições (LPS) e travas de pré-requisitos.",
          owner, "D+5", "Planejamento/Execução")

\* the loop without its break: an item for every critical overdue task
RECURSIVE LicoesDeTarefas_sem_break(_, _, _)
LicoesDeTarefas_sem_break(tarefas, d, owner) ==
    IF tarefas = <<>> THEN <<>>
    ELSE (IF LicaoAtrasada(Head(tarefas), d) THEN <<LicaoDaTarefa(Head(tarefas), owner)>>
          ELSE <<>>) \o LicoesDeTarefas_sem_break(Tail(tarefas), d, owner)

\* the loop over the tasks: the item of the first critical overdue task
RECURSIVE LicoesDeTarefas(_, _, _)
LicoesDeTarefas(tarefas, d, owner) ==
    IF tarefas = <<>> THEN <<>>
    ELSE IF LicaoAtrasada(Head(tarefas), d) THEN <<LicaoDaTarefa(Head(tarefas), owner)>>
    ELSE LicoesDeTarefas(Tail(tarefas), d, owner)

\* the items of gerar_licoes_aprendidas for the owner, in the order it appends them
LicoesDe(owner, cpi, spi, gap_pf, tarefas, d) ==
    Quando(<<<<~IsNone(cpi) /\ Lt(Val(cpi), targets.cpi),
               Licao("Desvio de custo (CPI abaixo da meta).",
                     "Estimativas subavaliadas e controle de mudanças sem gate claro.",
                     "Reforçar Change Control Board e auditoria de medição financeira.",
                     owner, "D+14", "Financeiro/Controle")>>,
             <<~IsNone(spi) /\ Lt(Val(spi), targets.spi),
               Licao("Risco de atraso (SPI abaixo da meta).",
                     "Caminho crítico sem replanejamento tempestivo.",
                     "Replanejar caminho crítico e instituir rito semanal com EVM.",
                     owner, "D+7", "Prazo/Planejamento")>>,
             <<~IsNone(gap_pf) /\ BinGeInt(Val(gap_pf), 15),
               Licao("Assimetria físico x financeiro >=15pp.",
                     "Critérios de medição divergentes entre equipes.",
                     "Unificar critérios e auditar 3 pacotes críticos.",
                     owner, "D+10", "Execução/Medição")>>>>)
    \o LicoesDeTarefas(tarefas, d, owner)

\* gerar_licoes_aprendidas; gap_pf is kpis["gap_pf"], d the value date.today()
\* returns to it.
gerar_licoes_aprendidas(c, campos_num, gap_pf, tarefas, d) ==
    IF ~features.enable_lessons_learned THEN <<>>
    ELSE Take(LicoesDe(PrimeiroOwner(split_stakeholders(c.stakeholders)),
                       campos_num.cpi_num, campos_num.spi_num, gap_pf, tarefas, d), 5)

(***************************************************************************)
(* Core: _analisar.                                                        *)
(***************************************************************************)
\* The places of _analisar that read date.today(), in the order of the calls.
LeiturasRelogio ==
    <<"cronograma", "recomendado", "atual", "riscos", "licoes", "diag", "proj">>

\* the position of the place x in the places ls, 0 when it is not among them
RECURSIVE LugarEm(_, _)
LugarEm(ls, x) ==
    IF ls = <<>> THEN 0
    ELSE IF ls[Len(ls)] = x THEN Len(ls)
    ELSE LugarEm(SubSeq(ls, 1, Len(ls) - 1), x)

\* Relogio(h, ls, k): what the reads at the places ls return, when the first
\* k of them return the day h and the later ones the next day (midnight
\* passes while the request is processed)
Relogio(h, ls, k) ==
    [x \in {ls[i] : i \in 1..Len(ls)} |-> IF LugarEm(ls, x) <= k THEN h ELSE NextDay(h)]

\* campos_num of _analisar
CamposNum(c) ==
    [cpi_num |-> to_number(JStr(c.cpi)),
     spi_num |-> to_number(JStr(c.spi)),
     avanco_fisico_num |-> percent_to_number(JStr(c.avanco_fisico)),
     avanco_financeiro_num |-> percent_to_number(JStr(c.avanco_financeiro))]

\* indicadores of _analisar
Indicadores(c) ==
    [isp |-> to_number(Get(c.indicadores, "isp")),
     idp |-> to_number(Get(c.indicadores, "idp")),
     idco |-> to_number(Get(c.indicadores, "idco")),
     idb |-> to_number(Get(c.indicadores, "idb"))]

\* one entry of `tarefas` of _analisar, from the task dict t of the request
Tarefa(t) ==
    [nome |-> Get(t, "nome"),
     inicio |-> IF Get(t, "inicio").tipo = "date" THEN Some(Get(t, "inicio").v)
                ELSE parse_date(Get(t, "inicio")),
     fim |-> IF Get(t, "fim").tipo = "date" THEN Some(Get(t, "fim").v)
             ELSE parse_date(Get(t, "fim")),
     pct |-> IF Get(t, "pct").tipo = "num" THEN Some(Get(t, "pct").v)
             ELSE IF Get(t, "pct").tipo = "bool" THEN Some(Dec(B2I(Get(t, "pct").v), 1))
             ELSE to_number(Get(t, "pct")),
     critica |-> Truthy(Get(t, "critica"))]

RECURSIVE TarefasDe(_)
TarefasDe(ts) == IF ts = <<>> THEN <<>> ELSE <<Tarefa(Head(ts))>> \o TarefasDe(Tail(ts))

\* the loop over the value tv under "tarefas" raises: tv is truthy and is
\* no list (a text or a dict yields strings, which have no .get; a number
\* cannot be iterated), or some entry of the list is no dict
TarefasLevanta(tv) ==
    Truthy(tv) /\ (tv.tipo # "list" \/ \E i \in DOMAIN tv.v : tv.v[i].tipo # "dict")

\* `tarefas` of _analisar, from the value tv under "tarefas"
TarefasDoValor(tv) == IF Truthy(tv) /\ ~TarefasLevanta(tv) THEN TarefasDe(tv.v) ELSE <<>>

\* `tarefas` of _analisar
Tarefas(c) == TarefasDoValor(Get(c.cronograma, "tarefas"))

\* `fin` of _analisar: the normalized financial snapshot
FinNormalizado(c) ==
    LET fin_raw == c.financeiro
    IN  JDict(Par("capex_aprovado",
                  Or(Get(fin_raw, "capex_aprovado"), BaselineCapex(c.baseline)))
              \o Par("capex_comp",
                     Or(Get(fin_raw, "capex_comp"), Get(fin_raw, "capex comprometido")))
              \o Par("capex_exec",
                     Or(Get(fin_raw, "capex_exec"), Get(fin_raw, "capex executado")))
              \o Par("ev", Get(fin_raw, "ev")) \o Par("pv", Get(fin_raw, "pv"))
              \o Par("ac", Get(fin_raw, "ac")) \o Par("eac", Get(fin_raw, "eac"))
              \o Par("vac", Get(fin_raw, "vac")))

\* `divergente` of _analisar: the value of the Python `and` chain, which is
\* its first falsy operand or else its last operand.
Divergente(pilar_declarado, pilar_inferido) ==
    IF pilar_declarado = "" THEN JStr("")
    ELSE IF pilar_declarado = NaoInformado THEN JBool(FALSE)
    ELSE IF IsNone(pilar_inferido) THEN JNull
    ELSE JBool(normalize(pilar_declarado) # normalize(Val(pilar_inferido)))

\* pilar_final that lets the inference override the declaration
PilarFinal_inferido(pilar_declarado, pilar_inferido) ==
    IF ~IsNone(pilar_inferido) THEN Val(pilar_inferido)
    ELSE IF pilar_declarado # "" THEN pilar_declarado
    ELSE NaoInformado

\* pilar_final of _analisar
PilarFinal(pilar_declarado, pilar_inferido) ==
    IF pilar_declarado # "" /\ pilar_declarado # NaoInformado THEN pilar_declarado
    ELSE IF IsNone(pilar_inferido) \/ Val(pilar_inferido) = "" THEN NaoInformado
    ELSE Val(pilar_inferido)

\* the response of _analisar and the local values the claims speak of, once
\* the pillar (inferido, divergente, pilar_final) and the four score parts
\* (p_base, p_ind, p_cron, p_fin, summed in total) are computed
Resposta(c, rel, campos_num, indicadores, tarefas, baseline, fin, inferido, divergente, pilar_final, p_base, p_ind, p_cron, p_fin, total) ==
    LET pilar_para_recomendado ==
            IF IsNone(inferido.pilar) \/ Val(inferido.pilar) = "" THEN pilar_final
            ELSE Val(inferido.pilar)
        tdiv == IF Truthy(divergente)
                    THEN <<"Divergência Pilar: declarado='" \o c.pilar
                           \o "' vs sugerido='" \o Val(inferido.pilar) \o "'">>
                ELSE <<>>
    IN  [locais |->
            [campos_num |-> campos_num, indicadores |-> indicadores, tarefas |-> tarefas,
             baseline |-> baseline, fin |-> fin,
             gap_pf |-> GapPF(campos_num.avanco_fisico_num, campos_num.avanco_financeiro_num),
             relogio |-> rel,
             parcelas |-> [base |-> p_base.score, indices |-> p_ind.score,
                           cronograma |-> p_cron.score, financeiro |-> p_fin.score],
             pilar_para_recomendado |-> pilar_para_recomendado,
             pilar_scores |-> inferido.scores,
             fit_scores |-> FitScores(TextoFit(c), campos_num, indicadores)],
         saida |->
            [score_risco |-> total.score,
             classificacao_risco |-> classificar_risco(total.score),
             riscos_chave |-> riscos_chave_contextual(campos_num, tarefas, baseline, fin,
                                                      c.observacoes, indicadores, rel.riscos),
             pilar_declarado |-> c.pilar,
             pilar_sugerido |-> inferido.pilar,
             pilar_divergente |-> divergente,
             pilar_final |-> pilar_final,
             proximos_passos_recomendado |->
                 gerar_recomendacoes_contextuais(c, campos_num, tarefas, baseline, fin,
                     c.observacoes, pilar_para_recomendado, rel.recomendado),
             proximos_passos_atual |->
                 gerar_recomendacoes_contextuais(c, campos_num, tarefas, baseline, fin,
                     c.observacoes,
                     IF c.pilar # "" THEN c.pilar ELSE NaoInformado,
                     rel.atual),
             strategy_fit |-> strategy_fit(c, campos_num, indicadores),
             analise_estrategica |->
                 IF features.enable_strategic_analysis
                     THEN Some(analise_estrategica_textual(c,
                              strategy_fit(c, campos_num, indicadores),
                              classificar_risco(total.score), divergente, c.pilar,
                              inferido.pilar))
                 ELSE None,
             licoes_aprendidas |->
                 gerar_licoes_aprendidas(c, campos_num,
                     GapPF(campos_num.avanco_fisico_num, campos_num.avanco_financeiro_num),
                     tarefas, rel.licoes),
             trace |-> inferido.trace \o tdiv \o total.trace]]

\* _analisar from the score on: the four parts are summed in the order of the calls
Pontuado(c, rel, campos_num, indicadores, tarefas, baseline, fin, inferido, p_base, p_ind, p_cron, p_fin) ==
    Resposta(c, rel, campos_num, indicadores, tarefas, baseline, fin, inferido,
             Divergente(c.pilar, inferido.pilar),
             PilarFinal(c.pilar, inferido.pilar),
             p_base, p_ind, p_cron, p_fin,
             Mais(Mais(Mais(p_base, p_ind), p_cron), p_fin))

\* _analisar from the pillar on, given the normalized inputs
Normalizado(c, rel, campos_num, indicadores, tarefas, baseline, fin) ==
    Pontuado(c, rel, campos_num, indicadores, tarefas, baseline, fin,
             inferir_pilar(c, campos_num, indicadores),
             calcular_score_risco_base(campos_num, c.observacoes),
             risco_por_indices(indicadores),
             IF features.enable_schedule_pack
                 THEN risco_por_cronograma(tarefas, rel.cronograma) ELSE NoPts,
             IF features.enable_finance_pack
                 THEN risco_por_baseline_financeiro(baseline, fin) ELSE NoPts)

\* _analisar(campos), with the days rel its reads of date.today() return:
\* the local values the claims speak of, and the response payload.
analisar(c, rel) ==
    Normalizado(c, rel, CamposNum(c), Indicadores(c), Tarefas(c), c.baseline,
                FinNormalizado(c))

(***************************************************************************)
(* Endpoint /analisar-projeto.                                             *)
(***************************************************************************)
\* payload.x or "Não informado"
OuNaoInformado(o) == IF IsNone(o) \/ Val(o) = "" THEN NaoInformado ELSE Val(o)

\* payload.x or []
OuVazio(o) == IF IsNone(o) THEN <<>> ELSE Val(o)

\* payload.x or d, for the dict d
OuDict(o, d) == IF IsNone(o) \/ ~Truthy(Val(o)) THEN d ELSE Val(o)

\* the places of _analisar that read the date on the fields c: the schedule
\* pack and the lessons learned read it when their feature is on, and
\* diagnostico_contextual asks for the first delayed critical task only when
\* the SPI is a number
Leituras(c) ==
    SelectSeq(LeiturasRelogio,
              LAMBDA x : /\ x = "cronograma" => features.enable_schedule_pack
                         /\ x = "licoes" => features.enable_lessons_learned
                         /\ x = "diag" => ~IsNone(CamposNum(c).spi_num))

\* the canonical field-set analisar_projeto builds from the payload
CamposDe(p) ==
    [nome_projeto |-> OuNaoInformado(p.nome_projeto),
     cpi |-> OuNaoInformado(p.cpi),
     spi |-> OuNaoInformado(p.spi),
     avanco_fisico |-> OuNaoInformado(p.avanco_fisico),
     avanco_financeiro |-> OuNaoInformado(p.avanco_financeiro),
     tipo_contrato |-> OuNaoInformado(p.tipo_contrato),
     stakeholders |-> OuNaoInformado(p.stakeholders),
     observacoes |-> OuNaoInformado(p.observacoes),
     pilar |-> OuNaoInformado(p.pilar),
     objetivo |-> OuNaoInformado(p.objetivo),
     resumo_status |-> OuVazio(p.resumo_status),
     planos_proximo_periodo |-> OuVazio(p.planos_proximo_periodo),
     pontos_atencao |-> OuVazio(p.pontos_atencao),
     indicadores |-> OuDict(p.indicadores, EmptyDict),
     data_final_planejada |-> OuNaoInformado(p.data_final_planejada),
     baseline |-> OuDict(p.baseline, EmptyDict),
     escopo |-> OuNaoInformado(p.escopo),
     cronograma |-> OuDict(p.cronograma, JDict(Par("tarefas", JList(<<>>)))),
     financeiro |-> OuDict(p.financeiro, EmptyDict)]

(***************************************************************************)
(* The requests of the model.  A request varies the fields of one family   *)
(* and leaves the others out, as an omitted field of ProjetoRequest is.    *)
(***************************************************************************)
\* the longest task list of a request
MaxTarefas == 2

PayloadVazio ==
    [nome_projeto |-> None, cpi |-> None, spi |-> None, avanco_fisico |-> None,
     avanco_financeiro |-> None, tipo_contrato |-> None, stakeholders |-> None,
     observacoes |-> None, pilar |-> None, objetivo |-> None, resumo_status |-> None,
     planos_proximo_periodo |-> None, pontos_atencao |-> None, indicadores |-> None,
     data_final_planejada |-> None, baseline |-> None, escopo |-> None,
     cronograma |-> None, financeiro |-> None]

\* the day the requests arrive
DiaInicial == [y |-> 2024, m |-> 6, d |-> 15]

CPIs == {None, Some("0.80"), Some("0.849"), Some("0.85"), Some("0,87"), Some("0.90"),
         Some("1.05"), Some("n/d")}

SPIs == {None, Some("0.80"), Some("0.90"), Some("0.92"), Some("0,949"), Some("0.95"),
         Some("1,00")}

\* physical and financial progress
Avancos ==
    {<<None, None>>, <<Some("50%"), Some("40%")>>, <<Some("50%"), Some("42%")>>,
     <<Some("50"), Some("43")>>, <<Some("30%"), Some("50%")>>, <<Some("60 %"), Some("45%")>>,
     <<Some("cinquenta"), Some("40%")>>, <<Some("70,1%"), Some("62,1%")>>}

\* cost index, schedule index, progress and observations: every pair of
\* indices, each index in a narrative with progress, every progress pair
\* with and without indices and narrative
PedidosIndices ==
    {[PayloadVazio EXCEPT !.cpi = cpi, !.spi = spi] : cpi \in CPIs, spi \in SPIs}
    \cup {[PayloadVazio EXCEPT !.cpi = i[1], !.spi = i[2], !.avanco_fisico = Some("50%"),
                               !.avanco_financeiro = Some("40%"),
                               !.observacoes = Some("atraso no fornecedor crítico")] :
              i \in {<<cpi, None>> : cpi \in CPIs} \cup {<<None, spi>> : spi \in SPIs}}
    \cup {[PayloadVazio EXCEPT !.cpi = i[1], !.spi = i[2], !.avanco_fisico = av[1],
                               !.avanco_financeiro = av[2], !.observacoes = obs] :
              i \in {<<None, None>>, <<Some("0.80"), Some("0.92")>>}, av \in Avancos,
              obs \in {None, Some("atraso no fornecedor crítico")}}

\* a dict entry that is left out when its value is None
Entrada(k, o) == IF IsNone(o) THEN <<>> ELSE Par(k, Val(o))

Pilares ==
    {None, Some("Foco no Cliente"), Some("foco no cliente "), Some("EXCELENCIA ORGANIZACIONAL"),
     Some("Alocação Estratégica de Capital"), Some("Não informado"), Some("Inovação")}

Objetivos ==
    {None, Some("Melhorar processo e governança"), Some("Elevar a satisfação do cliente"),
     Some("Priorizar capex"), Some("Processo de atendimento"),
     Some("Jornada do cliente e investimento"), Some("Processo, cliente e capex"),
     Some("Cliente e payback")}

\* the request with the declared pillar, the objective and the signals s of
\* the pillar inference: cost index, status, the indicator idb, the budget
PedidoPilar(pilar, obj, s) ==
    [PayloadVazio EXCEPT !.pilar = pilar, !.objetivo = obj, !.cpi = s[1],
                         !.resumo_status = s[2],
                         !.indicadores = IF IsNone(s[3]) THEN None
                                         ELSE Some(JDict(Entrada("idb", s[3]))),
                         !.financeiro = IF IsNone(s[4]) THEN None
                                        ELSE Some(JDict(Entrada("capex_aprovado", s[4])))]

SinaisPilar ==
    {<<cpi, rs, idb, cap>> :
        cpi \in {None, Some("0.80")},
        rs \in {None, Some(<<"Execução conforme METAS", "SLA em dia">>)},
        idb \in {None, Some(JStr("0,95"))},
        cap \in {None, Some(JStr("1000")), Some(JStr("0")), Some(JStr("a definir"))}}

\* declared pillar and the signals of the pillar inference: every pillar
\* and objective without signals and with every signal, every objective
\* with the cost index, and every combination of signals for a pillar and
\* an objective that differ
PedidosPilar ==
    {PedidoPilar(pilar, obj, s) :
        pilar \in Pilares, obj \in Objetivos,
        s \in {<<None, None, None, None>>,
                <<Some("0.80"), Some(<<"Execução conforme METAS", "SLA em dia">>),
                  Some(JStr("0,95")), Some(JStr("1000"))>>}}
    \cup {PedidoPilar(None, obj, <<Some("0.80"), None, None, None>>) : obj \in Objetivos}
    \cup {PedidoPilar(Some("Foco no Cliente"), Some("Melhorar processo e governança"), s) :
              s \in SinaisPilar}

Indices == {None, Some(JStr("0.85")), Some(JStr("0,90")), Some(JNum(1, 1))}

\* the four auxiliary indicators
PedidosIndicadores ==
    {[PayloadVazio EXCEPT !.indicadores =
          Some(JDict(Entrada("isp", isp) \o Entrada("idp", idp) \o Entrada("idco", idco)
                     \o Entrada("idb", idb)))] :
        isp \in Indices, idb \in Indices,
        idp \in {None, Some(JStr("0.85"))}, idco \in {None, Some(JNum(1, 1))}}

\* the request with the cost index, the approved budget bas of the baseline
\* and the financial snapshot
PedidoFinanceiro(cpi, bas, vac, eac, comp, apr) ==
    [PayloadVazio EXCEPT !.cpi = cpi,
         !.baseline = IF IsNone(bas) THEN None
                      ELSE Some(JDict(Par("custo", JDict(Entrada("capex_aprovado", bas))))),
         !.financeiro = Some(JDict(Entrada("vac", vac) \o Entrada("eac", eac) \o comp
                                   \o Entrada("capex_aprovado", apr)))]

\* baseline and financial snapshot: every combination of amounts without a
\* cost index, and the amounts as texts with each cost index
PedidosFinanceiro ==
    {PedidoFinanceiro(None, bas, vac, eac, comp, apr) :
        bas \in {None, Some(JNum(1000, 1))},
        vac \in {None, Some(JStr("-100")), Some(JNum(50, 1))},
        eac \in {None, Some(JStr("1.200,00")), Some(JNum(900, 1))},
        comp \in {<<>>, Par("capex_comp", JStr("1100")), Par("capex comprometido", JStr("1100"))},
        apr \in {None, Some(JStr("1000"))}}
    \cup {PedidoFinanceiro(cpi, Some(JStr("1000")), vac, eac, comp, None) :
              cpi \in {Some("0.80"), Some("0.87")},
              vac \in {None, Some(JStr("-100"))},
              eac \in {None, Some(JStr("1.200,00"))},
              comp \in {<<>>, Par("capex_comp", JStr("1100"))}}

ObservacoesChave ==
    {"atraso", "licença ambiental", "EMBARGO", "paralisação", "fornecedor", "pressão",
     "custo", "multas", "sanção", "risco", "equipamento", "crítico",
     "atraso, atraso e mais atraso", "atraso, multas, sanção, custo e pressão",
     "risco crítico de embargo", "pressão de custo", "Não informado", "obra em dia"}

\* observations, alone and with stakeholders, declared pillar and schedule
\* index
PedidosTexto ==
    {[PayloadVazio EXCEPT !.observacoes = Some(obs), !.stakeholders = r[1], !.pilar = r[2],
                          !.spi = r[3]] :
        obs \in ObservacoesChave,
        r \in {<<None, None, None>>,
                <<Some("Ana; Bruno, Carla"), Some("Foco no Cliente"), Some("0.92")>>}}

NomesTarefas == <<"Fundação", "Montagem", "Comissionamento">>

\* a task of a list: ended yesterday or ends today, critical or not
TarefasLista(i) ==
    {JDict(Par("nome", JStr(NomesTarefas[i])) \o Par("fim", JStr(fim)) \o Par("pct", JNum(20, 1))
           \o Par("critica", JBool(crit))) :
        fim \in {"2024-06-14", "15/06/2024"},
        crit \in BOOLEAN}

RECURSIVE ListasDeTarefas(_)
ListasDeTarefas(n) ==
    IF n = 0 THEN {<<>>}
    ELSE LET menores == ListasDeTarefas(n - 1)
         IN  menores \cup {Append(ts, t) : ts \in {x \in menores : Len(x) = n - 1},
                                           t \in TarefasLista(((n - 1) % Len(NomesTarefas)) + 1)}

\* schedules of up to MaxTarefas tasks
PedidosCronograma ==
    {[PayloadVazio EXCEPT !.cronograma = Some(JDict(Par("tarefas", JList(ts))))] :
        ts \in ListasDeTarefas(MaxTarefas)}

\* the request with the schedule index and one task
PedidoTarefa(spi, nome, fim, pct, crit) ==
    [PayloadVazio EXCEPT !.spi = spi,
         !.cronograma = Some(JDict(Par("tarefas", JList(
             <<JDict(Entrada("nome", nome) \o Entrada("fim", fim) \o Entrada("pct", pct)
                     \o Entrada("critica", crit))>>))))]

\* one task, named and alone, with every form of its end, every form of
\* its percent-complete, and unnamed under a schedule index
PedidosTarefa ==
    {PedidoTarefa(None, Some(JStr("Fundação")), fim, pct, crit) :
        fim \in {None, Some(JStr("2024-06-14")), Some(JStr("14/06/2024")),
                 Some(JStr("15-06-2024")), Some(JStr("2024-06-16")), Some(JStr("junho")),
                 Some(JStr("2024-02-30"))},
        pct \in {None, Some(JNum(20, 1))},
        crit \in {None, Some(JBool(TRUE)), Some(JBool(FALSE))}}
    \cup {PedidoTarefa(None, Some(JStr("Fundação")), Some(JStr("2024-06-14")), pct, crit) :
              pct \in {Some(JStr("29,9")), Some(JStr("30")), Some(JStr("100%")),
                         Some(JStr("n/a"))},
              crit \in {None, Some(JBool(TRUE)), Some(JBool(FALSE))}}
    \cup {PedidoTarefa(Some("0.80"), None, fim, pct, crit) :
              fim \in {Some(JStr("2024-06-14")), Some(JStr("15-06-2024"))},
              pct \in {None, Some(JStr("100%"))},
              crit \in {None, Some(JBool(TRUE)), Some(JBool(FALSE))}}

\* a scalar, a list, a map and a schedule that carry nothing: left out,
\* the sentinel, or empty
Ausencias ==
    {[s |-> None, l |-> None, m |-> None, c |-> None],
     [s |-> Some("Não informado"), l |-> Some(<<>>), m |-> Some(EmptyDict),
      c |-> Some(JDict(Par("tarefas", JList(<<>>))))],
     [s |-> Some(""), l |-> Some(<<>>), m |-> Some(EmptyDict), c |-> Some(EmptyDict)]}

\* requests in which every field is absent, the sentinel or empty, with or without stakeholders
PedidosAusentes ==
    {[nome_projeto |-> a.s, cpi |-> a.s, spi |-> a.s, avanco_fisico |-> a.s,
      avanco_financeiro |-> a.s, tipo_contrato |-> a.s, stakeholders |-> st,
      observacoes |-> a.s, pilar |-> a.s, objetivo |-> a.s, resumo_status |-> a.l,
      planos_proximo_periodo |-> a.l, pontos_atencao |-> a.l, indicadores |-> a.m,
      data_final_planejada |-> a.s, baseline |-> a.m, escopo |-> a.s,
      cronograma |-> a.c, financeiro |-> a.m] :
        a \in Ausencias, st \in {None, Some("Não informado"), Some("Ana; Bruno")}}

\* amounts and an indicator that cannot be read as numbers, beside the same
\* requests with the value left out; the committed budget under its two keys
PedidosIlegiveis ==
    {[PayloadVazio EXCEPT
          !.baseline = Some(JDict(Par("custo", JDict(Par("capex_aprovado", JStr("1000")))))),
          !.financeiro = Some(JDict(Entrada("vac", vac) \o comp)),
          !.indicadores = Some(JDict(Entrada("isp", isp)))] :
        vac \in {None, Some(JStr("n/d")), Some(JStr("-100"))},
        comp \in {<<>>, Par("capex_comp", JStr("n/d")), Par("capex comprometido", JStr("1100")),
                  Par("capex_comp", JStr("n/d")) \o Par("capex comprometido", JStr("1100"))},
        isp \in {None, Some(JStr("n/d")), Some(JStr("0.85"))}}


\* stakeholders strings with each separator, several separators, empty names
\* and more than three names
PedidosStakeholders ==
    {[PayloadVazio EXCEPT !.stakeholders = Some(st), !.pilar = r[1], !.avanco_fisico = r[2],
                          !.avanco_financeiro = r[3]] :
        st \in {"Ana", "Ana | Bruno", "Ana\nBruno", "Ana\\nBruno", "Ana; Bruno | Carla",
                "Ana, Bruno\nCarla", "Ana\\nBruno\nCarla", "Ana,, Bruno ,", " ; ", "  ",
                "Ana; Bruno; Carla; Davi, Eva", "Ana | Bruno, Carla | Davi",
                "Não informado"},
        r \in {<<None, None, None>>,
                <<Some("Excelência Operacional"), Some("50"), Some("40")>>}}


\* the schedule {"tarefas": ts}
CronogramaDe(ts) == JDict(Par("tarefas", JList(ts)))

\* a task that ended the day before the request
TarefaVencida(nome, pct, critica) ==
    JDict(Par("nome", JStr(nome)) \o Par("fim", JStr("2024-06-14")) \o Par("pct", pct)
          \o Par("critica", JBool(critica)))

\* every condition of the lessons learned, met or missed at its threshold,
\* with stakeholders; schedules with no, one and two critical overdue tasks
PedidosLicoes ==
    {[PayloadVazio EXCEPT !.cpi = i[1], !.spi = i[2], !.avanco_fisico = Some("50"),
                          !.avanco_financeiro = fin, !.stakeholders = st, !.cronograma = cr] :
        i \in {<<None, None>>, <<Some("0.89"), None>>, <<None, Some("0.94")>>,
                <<Some("0.89"), Some("0.94")>>, <<Some("0.90"), Some("0.95")>>},
        fin \in {None, Some("35"), Some("36")},
        st \in {Some("Bia, Caio")},
        cr \in {None,
                Some(CronogramaDe(<<TarefaVencida("Fundação", JNum(20, 1), TRUE),
                                    TarefaVencida("Montagem", JNum(0, 1), TRUE)>>)),
                Some(CronogramaDe(<<TarefaVencida("Fundação", JNum(50, 1), FALSE),
                                    TarefaVencida("Montagem", JNull, TRUE)>>)),
                Some(CronogramaDe(<<TarefaVencida("Fundação", JNum(100, 1), TRUE)>>))}}


\* scopes of each portfolio class, with and without signals of a pillar
PedidosPortfolio ==
    {[PayloadVazio EXCEPT !.escopo = Some(esc), !.objetivo = obj, !.cpi = cpi, !.pilar = pilar] :
        esc \in {"Nova subestação 500 kV", "Banco de baterias", "Datacenter", "Resultado"},
        obj \in {None, Some("Elevar a satisfação do cliente")},
        cpi \in {None, Some("0.80"), Some("8.0e-1")},
        pilar \in {None, Some("Foco no Cliente"), Some("Excelência Organizacional")}}

\* a baseline whose cost is no dict (absent, empty, an amount or a list) or
\* is a dict with a key "tipo"; with and without the approved budget in the
\* financial snapshot
PedidosSemDict ==
    {[PayloadVazio EXCEPT !.baseline = Some(JDict(Par("custo", custo))),
                          !.financeiro = Some(JDict(fin))] :
        custo \in {JNull, JStr(""), JNum(0, 1), JStr("1000"), JNum(1000, 1), JList(<<>>),
                   JList(<<JNum(1000, 1)>>),
                   JDict(Par("tipo", JStr("obra")) \o Par("capex_aprovado", JStr("800")))},
        fin \in {<<>>, Par("capex_aprovado", JStr("900"))}}

\* a critical task that ended the day before the request, under the name j
TarefaChamada(j) ==
    JDict(Par("nome", j) \o Par("fim", JStr("2024-06-14")) \o Par("critica", JBool(TRUE)))

\* a schedule whose tasks are no list of dicts (absent, empty, a text, a
\* number, a dict, a list of names), and tasks whose name is no text
PedidosSemLista ==
    {[PayloadVazio EXCEPT !.cronograma = Some(JDict(Par("tarefas", tv))), !.spi = spi] :
        tv \in {JNull, JStr(""), JStr("Fundação"), JNum(0, 1), JNum(3, 1), JBool(TRUE),
                EmptyDict, TarefaChamada(JStr("Fundação")), JList(<<JStr("Fundação")>>),
                JList(<<TarefaChamada(JStr("Fundação")), JNull>>),
                JList(<<TarefaChamada(JNull)>>), JList(<<TarefaChamada(JList(<<>>))>>),
                JList(<<TarefaChamada(JList(<<JStr("a")>>))>>),
                JList(<<TarefaChamada(JDict(Par("a", JNum(1, 1))))>>),
                JList(<<TarefaChamada(JNum(15, 10))>>)},
        spi \in {None, Some("0.80")}}

Pedidos ==
    PedidosIndices \cup PedidosPilar \cup PedidosIndicadores \cup PedidosFinanceiro
    \cup PedidosTexto \cup PedidosCronograma \cup PedidosTarefa \cup PedidosAusentes
    \cup PedidosIlegiveis \cup PedidosStakeholders \cup PedidosLicoes
    \cup PedidosPortfolio \cup PedidosSemDict \cup PedidosSemLista

Rota == "/analisar-projeto"

\* The day of the host changes at any moment of a request: before the first
\* read of the date, between two reads, after the last one (v reads return
\* the day the request arrived on, v in 0..n for the n places ls that read
\* the date), or not at all (v = n + 1).
Viradas(ls) == 0..(Len(ls) + 1)

\* the day of the host after a request that arrived on the day h, with the
\* reads ls and the turn v
DiaApos(h, ls, v) == IF v <= Len(ls) THEN NextDay(h) ELSE h

(***************************************************************************)
(* Free-text parser: parse_from_text.                                      *)
(***************************************************************************)
\* the position of the first character c of s at or after i, 0 when there is none
RECURSIVE PosDe(_, _, _)
PosDe(s, c, i) == IF i > Len(s) THEN 0 ELSE IF Ch(s, i) = c THEN i ELSE PosDe(s, c, i + 1)

\* line.split(":", 1) on a line that holds a colon at p: the key and the value
Chave(line, p) == SubSeq(line, 1, p - 1)

Valor(line, p) == SubSeq(line, p + 1, Len(line))

\* s.startswith(p)
StartsWith(p, s) == Len(s) >= Len(p) /\ SubSeq(s, 1, Len(p)) = p

\* s.lstrip("-")
RECURSIVE LStripHifen(_)
LStripHifen(s) == IF s # "" /\ Ch(s, 1) = "-" THEN LStripHifen(SubSeq(s, 2, Len(s))) ELSE s

\* the parts of a split without the empty part a final line break leaves
SemFinalVazio(parts) ==
    IF parts[Len(parts)] = "" THEN SubSeq(parts, 1, Len(parts) - 1) ELSE parts

\* the characters str.splitlines() breaks a line at, among those of Latin-1:
\* line feed, vertical tab, form feed, carriage return, U+001C..U+001E, U+0085
QuebrasDeLinha == {"\n", "\r", "\f", "", "", "", "", ""}

\* the positions where a line break of s ends (a carriage return followed
\* by a line feed is one break, which ends at the line feed)
Quebras(s) ==
    {i \in 1..Len(s) : /\ Ch(s, i) \in QuebrasDeLinha
                       /\ ~(Ch(s, i) = "\r" /\ i < Len(s) /\ Ch(s, i + 1) = "\n")}

\* the k-th of the positions q
Quebra(q, k) == CHOOSE p \in q : Cardinality({x \in q : x < p}) = k - 1

\* the position before the line break of s that ends at p
AntesDaQuebra(s, p) == IF Ch(s, p) = "\n" /\ p > 1 /\ Ch(s, p - 1) = "\r" THEN p - 2 ELSE p - 1

\* the parts of s between the line breaks that end at the positions q
LinhasDe(s, q) ==
    [k \in 1..(Cardinality(q) + 1) |->
        SubSeq(s, IF k = 1 THEN 1 ELSE Quebra(q, k - 1) + 1,
                  IF k > Cardinality(q) THEN Len(s) ELSE AntesDaQuebra(s, Quebra(q, k)))]

\* texto.splitlines()
splitlines(texto) == IF texto = "" THEN <<>> ELSE SemFinalVazio(LinhasDe(texto, Quebras(texto)))

\* `labels` of parse_from_text
labels ==
    {"nome do projeto", "objetivo",
     "resumo status", "resumo da situacao atual", "resumo da situação atual",
     "planos proximo periodo", "planos próximo periodo", "planos para o proximo periodo",
     "pontos de atencao", "pontos de atenção",
     "cpi", "spi", "isp", "idp", "idco", "idb",
     "avanco fisico", "avanco financeiro",
     "tipo de contrato", "stakeholders",
     "data final planejada",
     "baseline prazo", "baseline custo (capex aprovado)", "baseline custo",
     "escopo",
     "observacoes", "observações",
     "tarefas", "financeiro",
     "pilar"}

\* is_label(line) for a line with its first colon at p (0: no colon)
IsLabelEm(line, p) ==
    IF p = 0 THEN [has |-> FALSE, nk |-> "", val |-> ""]
    ELSE [has |-> normalize(Chave(line, p)) \in labels,
          nk |-> normalize(Chave(line, p)),
          val |-> Strip(Valor(line, p))]

is_label(line) == IsLabelEm(line, PosDe(line, ":", 1))

\* the line that follows i lines, stripped
Linha(lines, i) == Strip(lines[i + 1])


\* the end of a block without the test for a label: a block runs to the
\* next blank line
FimDeBloco_so_branco(lines, j) == j >= Len(lines) \/ Linha(lines, j) = ""

\* the tests that end a block at the line after j: no line, a blank line, a label
FimDeBloco(lines, j) ==
    j >= Len(lines) \/ Linha(lines, j) = "" \/ is_label(Linha(lines, j)).has

\* the body of the loop of collect_bullets for the line raw
ComBullet(bullets, raw) ==
    IF StartsWith("- ", raw) THEN Append(bullets, Strip(SubSeq(raw, 3, Len(raw))))
    ELSE IF bullets # <<>>
        THEN [bullets EXCEPT ![Len(bullets)] = Strip(@ \o " " \o raw)]
    ELSE <<raw>>

\* the loop of collect_bullets from the line j on, with the bullets so far
RECURSIVE ColetarDe(_, _, _)
ColetarDe(lines, j, bullets) ==
    IF FimDeBloco(lines, j) THEN [itens |-> bullets, i |-> j]
    ELSE ColetarDe(lines, j + 1, ComBullet(bullets, Linha(lines, j)))

collect_bullets(lines, start_idx) == ColetarDe(lines, start_idx, <<>>)

\* the dict d of parse_task_line: for each part with a colon, in order,
\* d[normalize(k)] = the stripped value
RECURSIVE SubCampos(_, _)
SubCampos(parts, d) ==
    IF parts = <<>> THEN d
    ELSE IF PosDe(Head(parts), ":", 1) = 0 THEN SubCampos(Tail(parts), d)
    ELSE SubCampos(Tail(parts),
                   DictSet(d, normalize(Chave(Head(parts), PosDe(Head(parts), ":", 1))),
                           JStr(Strip(Valor(Head(parts), PosDe(Head(parts), ":", 1))))))

\* an optional date, an optional float, as values of a task dict
DataJ(o) == IF IsNone(o) THEN JNull ELSE [tipo |-> "date", v |-> Val(o)]

NumJ(o) == IF IsNone(o) THEN JNull ELSE [tipo |-> "num", v |-> ComoFloat(Val(o))]

\* normalize(x) of a dict value x, absent or a string
NormJ(j) == IF j.tipo = "str" THEN normalize(j.v) ELSE ""

\* the task parse_task_line returns for the dict d of the line raw
TaskDe(d, raw) ==
    JDict(Par("nome", Or(Get(d, "nome"), JStr(Strip(Join("", Split(raw, "- "))))))
          \o Par("inicio", DataJ(parse_date(Or(Get(d, "inicio"), Get(d, "início")))))
          \o Par("fim", DataJ(parse_date(Get(d, "fim"))))
          \o Par("pct", NumJ(to_number(Or(Get(d, "%"), Get(d, "pct")))))
          \o Par("critica", JBool(NormJ(Or(Get(d, "critica"), Get(d, "crítica")))
                                      \in {"sim", "true", "critica", "crítica"})))

\* the tasks a dict d gives: none when it is empty
TaskOuNada(d, raw) == IF d = EmptyDict THEN <<>> ELSE <<TaskDe(d, raw)>>

\* parse_task_line(raw): <<>> for None, else <<the task>>
parse_task_line(raw) == TaskOuNada(SubCampos(StripAll(Split(raw, "\n")), EmptyDict), raw)

\* the body of the loop of the tasks block for the line raw
ComTarefa(tasks, raw) ==
    IF StartsWith("-", raw) THEN tasks \o parse_task_line(Strip(LStripHifen(raw))) ELSE tasks

\* the loop of the tasks block from the line i on
RECURSIVE TarefasDoBloco(_, _, _)
TarefasDoBloco(lines, i, tasks) ==
    IF FimDeBloco(lines, i) THEN [itens |-> tasks, i |-> i]
    ELSE TarefasDoBloco(lines, i + 1, ComTarefa(tasks, Linha(lines, i)))

\* the body of the loop of the financial block for the line raw
ComFinanceiro(fin, raw) ==
    IF PosDe(raw, ":", 1) = 0 THEN fin
    ELSE DictSet(fin, normalize(Chave(raw, PosDe(raw, ":", 1))),
                 JStr(Strip(Valor(raw, PosDe(raw, ":", 1)))))

\* the loop of the financial block from the line i on
RECURSIVE FinanceiroDoBloco(_, _, _)
FinanceiroDoBloco(lines, i, fin) ==
    IF FimDeBloco(lines, i) THEN [itens |-> fin, i |-> i]
    ELSE FinanceiroDoBloco(lines, i + 1, ComFinanceiro(fin, Linha(lines, i)))

\* val or "Não informado"
OuNI(val) == IF val = "" THEN NaoInformado ELSE val

\* the simple keys: the fields after the label nk with the value val
ChaveSimples(c, nk, val) ==
    CASE nk = "nome do projeto" -> [c EXCEPT !.nome_projeto = OuNI(val)]
      [] nk = "objetivo" -> [c EXCEPT !.objetivo = OuNI(val)]
      [] nk = "cpi" -> [c EXCEPT !.cpi = OuNI(val)]
      [] nk = "spi" -> [c EXCEPT !.spi = OuNI(val)]
      [] nk \in {"isp", "idp", "idco", "idb"} ->
            [c EXCEPT !.indicadores = DictSet(@, nk, JStr(val))]
      [] nk = "avanco fisico" -> [c EXCEPT !.avanco_fisico = OuNI(val)]
      [] nk = "avanco financeiro" -> [c EXCEPT !.avanco_financeiro = OuNI(val)]
      [] nk = "tipo de contrato" -> [c EXCEPT !.tipo_contrato = OuNI(val)]
      [] nk = "stakeholders" -> [c EXCEPT !.stakeholders = OuNI(val)]
      [] nk = "data final planejada" -> [c EXCEPT !.data_final_planejada = OuNI(val)]
      [] nk = "baseline prazo" ->
            [c EXCEPT !.baseline = DictSet(@, "prazo", JDict(Par("data_planejada", JStr(val))))]
      [] nk \in {"baseline custo (capex aprovado)", "baseline custo"} ->
            [c EXCEPT !.baseline =
                DictSet(@, "custo", DictSet(GetDict(@, "custo"), "capex_aprovado", JStr(val)))]
      [] nk = "escopo" -> [c EXCEPT !.escopo = OuNI(val)]
      [] nk \in {"observacoes", "observações"} -> [c EXCEPT !.observacoes = OuNI(val)]
      [] nk = "pilar" -> [c EXCEPT !.pilar = OuNI(val)]
      [] OTHER -> c

\* {"tarefas": tasks}
TarefasEmDict(r) == [itens |-> CronogramaDe(r.itens), i |-> r.i]

\* the fields and the scan position after a block that gave r
AposBloco(c, campo, r) == [campos |-> [c EXCEPT ![campo] = r.itens], i |-> r.i]

\* one pass of the main loop of parse_from_text on a line that is_label gave lab for
PassoLabel(c, lines, i, lab) ==
    IF ~lab.has THEN [campos |-> c, i |-> i + 1]
    ELSE IF lab.nk \in {"resumo status", "resumo da situacao atual", "resumo da situação atual"}
        THEN AposBloco(c, "resumo_status", collect_bullets(lines, i + 1))
    ELSE IF lab.nk \in {"planos proximo periodo", "planos próximo periodo",
                        "planos para o proximo periodo"}
        THEN AposBloco(c, "planos_proximo_periodo", collect_bullets(lines, i + 1))
    ELSE IF lab.nk \in {"pontos de atencao", "pontos de atenção"}
        THEN AposBloco(c, "pontos_atencao", collect_bullets(lines, i + 1))
    ELSE IF lab.nk = "tarefas"
        THEN AposBloco(c, "cronograma", TarefasEmDict(TarefasDoBloco(lines, i + 1, <<>>)))
    ELSE IF lab.nk = "financeiro"
        THEN AposBloco(c, "financeiro", FinanceiroDoBloco(lines, i + 1, EmptyDict))
    ELSE [campos |-> ChaveSimples(c, lab.nk, lab.val), i |-> i + 1]

\* one pass of the main loop of parse_from_text, at the line after i
PassoDoParse(c, lines, i) ==
    IF Linha(lines, i) = "" THEN [campos |-> c, i |-> i + 1]
    ELSE PassoLabel(c, lines, i, is_label(Linha(lines, i)))

\* `campos` of parse_from_text before the scan
CamposPadrao ==
    [nome_projeto |-> NaoInformado, cpi |-> NaoInformado, spi |-> NaoInformado,
     avanco_fisico |-> NaoInformado, avanco_financeiro |-> NaoInformado,
     tipo_contrato |-> NaoInformado, stakeholders |-> NaoInformado,
     observacoes |-> NaoInformado, pilar |-> NaoInformado, objetivo |-> NaoInformado,
     resumo_status |-> <<>>, planos_proximo_periodo |-> <<>>, pontos_atencao |-> <<>>,
     indicadores |-> EmptyDict, data_final_planejada |-> NaoInformado,
     baseline |-> EmptyDict, escopo |-> NaoInformado,
     cronograma |-> CronogramaDe(<<>>), financeiro |-> EmptyDict]

(***************************************************************************)
(* The state machine: a request arrives and the handler answers it.        *)
(***************************************************************************)
\* the process has imported the module and has served no request; LEAN_MODE
\* is what the environment of the process says
Init ==
    /\ hoje = DiaInicial
    /\ pedido = None
    /\ campos = None
    /\ locais = None
    /\ saida = None
    /\ analises = 0
    /\ features = FEATURES
    /\ targets = TARGETS
    /\ LEAN_MODE \in BOOLEAN

\* the response of an analysis that runs the pillar inference once per
\* process and switches it off
Responder_e_desligar(c, r, d) ==
    /\ campos' = Some(c)
    /\ locais' = Some(r.locais)
    /\ saida' = Some(r.saida)
    /\ hoje' = d
    /\ features' = [features EXCEPT !.enable_strategy_fit = FALSE]
    /\ UNCHANGED <<targets, LEAN_MODE>>

\* the handler returns the response r for the fields c, and the host is on
\* the day d when the request is over; _analisar and the
\* functions it calls read FEATURES, TARGETS and LEAN_MODE and assign to none
Responder(c, r, d) ==
    /\ campos' = Some(c)
    /\ locais' = Some(r.locais)
    /\ saida' = Some(r.saida)
    /\ hoje' = d
    /\ UNCHANGED <<features, targets, LEAN_MODE>>

\* the body of the response to a request whose handler raised (status 500)
ErroInterno == [erro |-> "Internal Server Error"]

\* _analisar raises on the fields c: the loop over the tasks raises, or the
\* value under "custo" of the baseline is truthy and no dict, and
\* risco_por_baseline_financeiro calls its get
Levanta(c) ==
    TarefasLevanta(Get(c.cronograma, "tarefas")) \/ BaselineCapex(c.baseline) = AttributeError

\* the handler raises on the fields c and the request is answered with the
\* error; the host is on the day d when the request is over
Falhar(c, d) ==
    /\ campos' = Some(c)
    /\ locais' = None
    /\ saida' = Some(ErroInterno)
    /\ hoje' = d
    /\ UNCHANGED <<features, targets, LEAN_MODE>>

\* a task of the fields c ends on the day h: it is overdue on the next day
\* and not on h
TerminaNoDia(c, h) == \E i \in 1..Len(Tarefas(c)) : Tarefas(c)[i].fim = Some(h)

\* _analisar(c) when its reads of the date return rel, given its result r
\* when every read returns the day the request arrived on.  A date that is
\* read is only compared with the end of a task (fim < hoje): unless a task
\* ends on that day (t), the comparisons give on the next day what they give
\* on it, and the two results differ in the dates read alone.
NaVirada(c, r, t, rel) ==
    IF t THEN analisar(c, rel) ELSE [r EXCEPT !.locais.relogio = rel]

\* the handler runs _analisar on the fields c and raises: the day changes
\* at any moment of the request or not at all
AnalisarEFalhar(c, ls) == \E v \in Viradas(ls) : Falhar(c, DiaApos(hoje, ls, v))

\* the handler runs _analisar on the fields c and answers, the day changing
\* at any moment of the request or not at all; r is the result when every
\* read of the date returns the day the request arrived on
AnalisarEResponder(c, ls) ==
    \E r \in {analisar(c, Relogio(hoje, ls, Len(ls)))}, t \in {TerminaNoDia(c, hoje)} :
        \E v \in Viradas(ls) :
            \E rv \in {NaVirada(c, r, t, Relogio(hoje, ls, v))} :
                Responder(c, rv, DiaApos(hoje, ls, v))

\* the handler runs _analisar on the fields c
Analisar(c) ==
    \E ls \in {Leituras(c)} :
        IF Levanta(c) THEN AnalisarEFalhar(c, ls) ELSE AnalisarEResponder(c, ls)

\* POST /analisar-projeto with the body p, the first request of the process:
\* the fields are filled in and _analisar answers
Receber(p) ==
    /\ IsNone(pedido)
    /\ pedido' = Some([rota |-> Rota, payload |-> p])
    /\ analises' = analises + 1
    /\ \E c \in {CamposDe(p)} : Analisar(c)

AnalisarProjeto == \E p \in Pedidos : Receber(p)

Next == AnalisarProjeto

Spec == Init /\ [][Next]_vars

\* the same request is sent up to MaxAnalises times
MaxAnalises == 2

\* the days that pass between the requests of a client
MaxDias == 2

\* the day n days after h
RECURSIVE DiasApos(_, _)
DiasApos(h, n) == IF n = 0 THEN h ELSE NextDay(DiasApos(h, n - 1))

\* a day ends on the host between two requests: the process keeps running
\* and no handler is called
PassaDia ==
    /\ ~IsNone(saida)
    /\ analises < MaxAnalises
    /\ DateLt(hoje, DiasApos(DiaInicial, MaxDias))
    /\ hoje' = NextDay(hoje)
    /\ UNCHANGED <<pedido, campos, locais, saida, analises, features, targets, LEAN_MODE>>

\* the client sends the answered request again, on the day the host has
\* reached: the handler builds the fields from the body and runs _analisar
\* anew, with the module-level dicts as the process holds them
Reanalisar ==
    /\ ~IsNone(pedido)
    /\ ~IsNone(saida)
    /\ analises < MaxAnalises
    /\ analises' = analises + 1
    /\ \E c \in {CamposDe(Val(pedido).payload)} : Analisar(c)
    /\ UNCHANGED pedido

\* schedules of at most one task
PedidosCronogramaBreve ==
    {[PayloadVazio EXCEPT !.cronograma = Some(CronogramaDe(ts))] : ts \in ListasDeTarefas(1)}

\* the requests that are sent again: the schedules of one task, that ended
\* the day before the first request or ends on its day, the requests that
\* carry nothing, indices below target with half of the work done, and
\* requests the handler fails on (a baseline whose cost is no dict, a
\* schedule whose tasks are no list of dicts)
PedidosRepetidos ==
    PedidosCronogramaBreve \cup PedidosAusentes \cup PedidosSemDict
    \cup {p \in PedidosSemLista : IsNone(p.spi)}
    \cup {p \in PedidosIndices : /\ p.cpi = Some("0.80") /\ p.spi = Some("0.92")
                                   /\ p.avanco_fisico = Some("50%")}

\* the first of the requests that are sent again
AnalisarRepetido == \E p \in PedidosRepetidos : Receber(p)

NextRepetida == AnalisarRepetido \/ PassaDia \/ Reanalisar

SpecRepetida == Init /\ [][NextRepetida]_vars


(***************************************************************************)
(* Endpoint /analisar-projeto-texto: the text is scanned line by line into *)
(* the field-set, one pass of the main loop of parse_from_text at a time,  *)
(* and _analisar answers for the fields.  While the text is scanned        *)
(* `campos` is the field-set under construction and `locais` holds the     *)
(* lines and the scan position i of parse_from_text.                       *)
(***************************************************************************)
RotaTexto == "/analisar-projeto-texto"

\* the longest body of a block of a text
MaxCorpo == 2

\* the labels that open a block
LinhasBloco ==
    {"Resumo status:", "Planos para o próximo período:", "Pontos de atenção:",
     "Tarefas:", "Financeiro:"}

\* the lines of a body: a bullet that states name, end date,
\* percent-complete and criticality, and a line without bullet
LinhaCompleta == "- nome: Fundação; fim: 01/06/2024; pct: 50; critica: sim"

LinhasCorpo == {LinhaCompleta, "vac: -100"}

Corpos == UNION {[1..n -> LinhasCorpo] : n \in 0..MaxCorpo}

\* what follows a body: nothing, a blank line, a simple label, a block label
Terminadores == {<<>>, <<"">>, <<"CPI: 0,80">>, <<"Tarefas:">>}

\* the lines after the terminator
Caudas == {<<>>, <<"- fim: 01/06/2024">>}

Textos ==
    {Join("\n", <<b>> \o corpo \o fim \o cauda) :
        b \in LinhasBloco, corpo \in Corpos, fim \in Terminadores, cauda \in Caudas}

\* the text t arrives, the first request of the process, and parse_from_text
\* runs up to its loop: the default fields, the lines, i = 0
ReceberTexto(t) ==
    /\ IsNone(pedido)
    /\ pedido' = Some([rota |-> RotaTexto, payload |-> [texto |-> t]])
    /\ campos' = Some(CamposPadrao)
    /\ locais' = Some([lines |-> splitlines(t), i |-> 0])
    /\ UNCHANGED <<hoje, saida, analises, features, targets, LEAN_MODE>>

IniciarParse == \E t \in Textos : ReceberTexto(t)

\* the fields and the position a pass of the loop leaves
Avancar(r, lines) ==
    /\ campos' = Some(r.campos)
    /\ locais' = Some([lines |-> lines, i |-> r.i])

\* one pass of the main loop of parse_from_text
PassoParse ==
    /\ ~IsNone(pedido) /\ Val(pedido).rota = RotaTexto
    /\ ~IsNone(campos) /\ IsNone(saida)
    /\ Val(locais).i < Len(Val(locais).lines)
    /\ Avancar(PassoDoParse(Val(campos), Val(locais).lines, Val(locais).i), Val(locais).lines)
    /\ UNCHANGED <<hoje, pedido, saida, analises, features, targets, LEAN_MODE>>

\* POST /analisar-projeto-texto once the loop is over: _analisar answers
AnalisarProjetoTexto ==
    /\ ~IsNone(pedido) /\ Val(pedido).rota = RotaTexto
    /\ ~IsNone(campos) /\ IsNone(saida)
    /\ Val(locais).i >= Len(Val(locais).lines)
    /\ analises' = analises + 1
    /\ Analisar(Val(campos))
    /\ UNCHANGED pedido

NextTexto == IniciarParse \/ PassoParse \/ AnalisarProjetoTexto

SpecTexto == Init /\ [][NextTexto]_vars

\* the condition of the main loop of parse_from_text: a pass is possible
PodePassar ==
    /\ ~IsNone(pedido) /\ Val(pedido).rota = RotaTexto
    /\ ~IsNone(campos) /\ IsNone(saida)
    /\ Val(locais).i < Len(Val(locais).lines)

\* parse_from_text runs without waiting: it begins, and a pass of its loop
\* that is possible is taken.  The second condition is the weak fairness of
\* PassoParse with its enabling condition, the condition of the loop,
\* written out.
SpecTextoJusta ==
    /\ SpecTexto
    /\ WF_vars(IniciarParse)
    /\ ([]<>(~PodePassar) \/ []<><<PassoParse>>_vars)

\* the request has been answered
Respondido == ~IsNone(saida) /\ "erro" \notin DOMAIN Val(saida)

(***************************************************************************)
(* Properties.                                                             *)
(***************************************************************************)
\* the fields of the answered request
P == Val(pedido).payload

L == Val(locais)

S == Val(saida)

\* C1: for every input the risk score is >= 0 and the classification is a
\* function of the score alone with exactly three tiers: score < 4 gives
\* "Baixo", 4 <= score < 7 gives "Médio", score >= 7 gives "Alto".
C1_ScoreTresFaixas ==
    Respondido =>
        /\ S.score_risco >= 0
        /\ S.classificacao_risco \in {"Baixo", "Médio", "Alto"}
        /\ (S.score_risco < 4 <=> S.classificacao_risco = "Baixo")
        /\ (S.score_risco >= 4 /\ S.score_risco < 7 <=> S.classificacao_risco = "Médio")
        /\ (S.score_risco >= 7 <=> S.classificacao_risco = "Alto")

\* C1 witness: a request whose score is exactly the high threshold
C1_Witness == Respondido /\ S.score_risco = 7 /\ S.classificacao_risco = "Alto"

\* the points the claim C2 gives a cost index
C2_PontosCusto(v) ==
    IF IsNone(v) THEN 0
    ELSE IF Val(v).n * 100 < 85 * Val(v).d THEN 5
    ELSE IF Val(v).n * 100 < 90 * Val(v).d THEN 3
    ELSE 0

\* the points the claim C2 gives a schedule index
C2_PontosPrazo(v) ==
    IF IsNone(v) THEN 0
    ELSE IF Val(v).n * 100 < 90 * Val(v).d THEN 5
    ELSE IF Val(v).n * 100 < 95 * Val(v).d THEN 3
    ELSE 0

\* the request gives no progress figures and no observations
C2_SoIndices ==
    IsNone(P.avanco_fisico) /\ IsNone(P.avanco_financeiro) /\ IsNone(P.observacoes)

\* C2: the bands of the cost and schedule indices are half-open and never
\* double-counted: cost +5 below 0.85, +3 in [0.85, 0.90), +0 from 0.90 on;
\* schedule +5 below 0.90, +3 in [0.90, 0.95), +0 from 0.95 on; an absent
\* index adds nothing; exactly 0.85 (cost) and 0.90 (schedule) give +3,
\* exactly 0.90 (cost) and 0.95 (schedule) give +0.
C2_FaixasSemiAbertas ==
    Respondido =>
        LET cpi == L.campos_num.cpi_num
            spi == L.campos_num.spi_num
            em(e) == \E i \in 1..Len(S.trace) : S.trace[i] = e
        IN  /\ em("CPI<0,85: +5") <=> C2_PontosCusto(cpi) = 5
            /\ em("0,85<=CPI<0,90: +3") <=> C2_PontosCusto(cpi) = 3
            /\ em("SPI<0,90: +5") <=> C2_PontosPrazo(spi) = 5
            /\ em("0,90<=SPI<0,95: +3") <=> C2_PontosPrazo(spi) = 3
            /\ C2_SoIndices =>
                  /\ L.parcelas.base = C2_PontosCusto(cpi) + C2_PontosPrazo(spi)
                  /\ (IsNone(P.cpi) /\ IsNone(P.spi) => L.parcelas.base = 0)
                  /\ (P.cpi = Some("0.85") /\ IsNone(P.spi) => L.parcelas.base = 3)
                  /\ (P.cpi = Some("0.90") /\ IsNone(P.spi) => L.parcelas.base = 0)
                  /\ (P.spi = Some("0.90") /\ IsNone(P.cpi) => L.parcelas.base = 3)
                  /\ (P.spi = Some("0.95") /\ IsNone(P.cpi) => L.parcelas.base = 0)

\* C2 witness: both indices on the lower edge of their middle band
C2_Witness ==
    /\ Respondido /\ C2_SoIndices
    /\ P.cpi = Some("0.85") /\ P.spi = Some("0.90")
    /\ L.parcelas.base = 6

\* end-to-end scenario 1 of the specification
Cenario1 ==
    [PayloadVazio EXCEPT !.cpi = Some("0.80"), !.spi = Some("0.92"),
                         !.avanco_fisico = Some("50%"), !.avanco_financeiro = Some("40%"),
                         !.observacoes = Some("atraso no fornecedor crítico")]

\* the score, the classification and the trace of scenario 1 with kw keyword points
C3_Resultado(kw, total) ==
    /\ S.trace = <<"ECK hint->Excelência (CPI/SPI abaixo do target)",
                   "ECK sugerido: Excelência Organizacional (E=2, C=0, K=0)",
                   "CPI<0,85: +5", "0,90<=SPI<0,95: +3",
                   "Gap físico x financeiro >=8pp: +1",
                   "Keywords observações (+" \o NatStr(kw) \o ")">>
    /\ L.gap_pf = Some(BinDe(10, 1))
    /\ S.score_risco = total
    /\ S.classificacao_risco = "Alto"

\* C3 as stated: in scenario 1 the contributions are +5 (cost), +3
\* (schedule), +1 (10pp gap) and +2 (keywords), the score is 11 and the
\* classification is "Alto".
C3_Original == Respondido /\ P = Cenario1 => C3_Resultado(2, 11)

\* C3 amended: in scenario 1 the contributions are +5 (cost), +3 (schedule),
\* +1 (10pp gap) and +3 (the keywords "atraso", "fornecedor" and "critico"),
\* the score is 12 and the classification is "Alto".
C3_Cenario1 == Respondido /\ P = Cenario1 => C3_Resultado(3, 12)

\* C3 witness: scenario 1 has been answered
C3_Witness == Respondido /\ P = Cenario1

\* the pillar scores of the answered request
C4_Scores == PilarScores(Val(campos), L.campos_num, L.indicadores)

\* C4: the inference returns None exactly when the three category scores
\* are zero; otherwise it returns a pillar whose score is the maximum, and
\* among the pillars that share the maximum the earliest in the order
\* Excellence, Customer, Capital.
C4_PilarInferido ==
    Respondido =>
        LET ps == C4_Scores
            mx == IF ps.exc >= ps.cli /\ ps.exc >= ps.cap THEN ps.exc
                  ELSE IF ps.cli >= ps.cap THEN ps.cli ELSE ps.cap
        IN  /\ IsNone(S.pilar_sugerido) <=> (ps.exc = 0 /\ ps.cli = 0 /\ ps.cap = 0)
            /\ S.pilar_sugerido = Some(Excelencia) => ps.exc = mx
            /\ S.pilar_sugerido = Some(Cliente) => ps.cli = mx /\ ps.exc < mx
            /\ S.pilar_sugerido = Some(Capital) => ps.cap = mx /\ ps.exc < mx /\ ps.cli < mx
            /\ S.pilar_sugerido \in {None, Some(Excelencia), Some(Cliente), Some(Capital)}

\* C4 witness: Customer and Capital share the maximum and Customer is returned
C4_Witness ==
    /\ Respondido
    /\ C4_Scores.cli = C4_Scores.cap /\ C4_Scores.cli > C4_Scores.exc
    /\ S.pilar_sugerido = Some(Cliente)

\* a pillar is declared: the field is present and is not the sentinel
Declarado == ~IsNone(P.pilar) /\ Val(P.pilar) # "" /\ Val(P.pilar) # NaoInformado

\* a pillar is inferred
Inferido == ~IsNone(S.pilar_sugerido)

\* the declared and the inferred pillar differ after normalization
Difere == normalize(Val(P.pilar)) # normalize(Val(S.pilar_sugerido))

\* C5: the divergence flag is true if and only if a declared pillar is
\* present (not the sentinel), an inferred pillar exists, and the two differ
\* after case/diacritic normalization; it is false whenever either is absent.
C5_Divergencia ==
    Respondido =>
        /\ S.pilar_divergente = JBool(TRUE) <=> (Declarado /\ Inferido /\ Difere)
        /\ ~(Declarado /\ Inferido) => S.pilar_divergente = JBool(FALSE)

\* the part of C5 the code keeps: the flag is truthy exactly in the stated case
C5_VerdadeiraSse ==
    Respondido => (Truthy(S.pilar_divergente) <=> (Declarado /\ Inferido /\ Difere))

\* C6: the final pillar equals the declared pillar whenever one is
\* declared, whatever is inferred; else the inferred pillar when one
\* exists; else the sentinel "Não informado".
C6_PilarFinal ==
    Respondido =>
        S.pilar_final = IF Declarado THEN Val(P.pilar)
                        ELSE IF Inferido THEN Val(S.pilar_sugerido)
                        ELSE NaoInformado

\* C6 witness: a declared pillar stands against a different inferred one
C6_Witness ==
    /\ Respondido /\ Declarado /\ Inferido /\ Difere
    /\ S.pilar_final = Val(P.pilar)

\* xs holds no entry twice
SemRepeticao(xs) == \A i, j \in 1..Len(xs) : xs[i] = xs[j] => i = j

\* the position of the first occurrence of x in xs
Primeira(xs, x) == CHOOSE i \in 1..Len(xs) : xs[i] = x /\ \A j \in 1..(i - 1) : xs[j] # x

\* out holds each sentence of gen once, in the order of the first occurrences
PrimeirasOcorrencias(out, gen) ==
    /\ SemRepeticao(out)
    /\ {out[i] : i \in 1..Len(out)} = {gen[i] : i \in 1..Len(gen)}
    /\ \A i, j \in 1..Len(out) : i < j => Primeira(gen, out[i]) < Primeira(gen, out[j])

\* C7: the key-risk list and both next-step lists hold no entry twice, and
\* their entries keep the first-occurrence order of the generated sentences.
C7_SemDuplicatas ==
    Respondido =>
        LET c == Val(campos)
        IN  /\ PrimeirasOcorrencias(S.riscos_chave,
                   RiscosGerados(L.campos_num, L.tarefas, L.baseline, L.fin, c.observacoes,
                                 L.indicadores, L.relogio.riscos))
            /\ PrimeirasOcorrencias(S.proximos_passos_recomendado,
                   RecsGeradas(c, L.campos_num, L.tarefas, L.baseline, L.fin, c.observacoes,
                               L.pilar_para_recomendado, L.relogio.recomendado))
            /\ PrimeirasOcorrencias(S.proximos_passos_atual,
                   RecsGeradas(c, L.campos_num, L.tarefas, L.baseline, L.fin, c.observacoes,
                               S.pilar_declarado, L.relogio.atual))

\* C7 witness: the three lists hold several sentences
C7_Witness ==
    /\ Respondido
    /\ Len(S.riscos_chave) >= 3
    /\ Len(S.proximos_passos_recomendado) >= 3
    /\ Len(S.proximos_passos_atual) >= 3

\* the number of scoring conditions of C8 that hold for the answered request
C8_Condicoes ==
    LET cn  == L.campos_num
        ind == L.indicadores
        obs == normalize(Val(campos).observacoes)
    IN  B2I(PontosCPI(cn.cpi_num).score > 0)
        + B2I(PontosSPI(cn.spi_num).score > 0)
        + B2I(PontosGap(cn.avanco_fisico_num, cn.avanco_financeiro_num).score > 0)
        + B2I(Abaixo(ind.isp, targets.idx_meta)) + B2I(Abaixo(ind.idp, targets.idx_meta))
        + B2I(Abaixo(ind.idco, targets.idx_meta)) + B2I(Abaixo(ind.idb, targets.idx_meta))
        + Len(risco_por_baseline_financeiro(L.baseline, L.fin).trace)
        + Cardinality({i \in 1..Len(RiskKeywords) : Contains(RiskKeywords[i], obs)})

\* C8: the key-risk list never drops a detected condition: each scoring
\* condition that holds (cost band, schedule band, progress-gap band, each
\* auxiliary indicator below target, each financial-baseline breach, each
\* narrative keyword hit) has its own sentence in the list; in particular a
\* score > 0 implies a non-empty list.
C8_NenhumaCondicaoPerdida ==
    Respondido =>
        /\ Len(S.riscos_chave) >= C8_Condicoes
        /\ S.score_risco > 0 => S.riscos_chave # <<>>

\* end-to-end scenario 4 of the specification: one critical task that ended
\* the day before the request, 20% complete
Cenario4 ==
    [PayloadVazio EXCEPT !.cronograma = Some(CronogramaDe(
        <<JDict(Par("nome", JStr("Fundação")) \o Par("fim", JStr("2024-06-14"))
                \o Par("pct", JNum(20, 1)) \o Par("critica", JBool(TRUE)))>>))]

\* the entries of the key-risk list that report the named task as a delayed critical task
C9_Entradas(nome) ==
    {j \in 1..Len(S.riscos_chave) :
        /\ Contains("tarefa critica atrasada", Fold(S.riscos_chave[j]))
        /\ Contains(nome, S.riscos_chave[j])}

\* C9: every overdue critical task produces a key-risk entry naming it; for
\* the schedule of scenario 4 and no other input the key-risk list holds
\* one "tarefa crítica atrasada" entry naming that task.
C9_TarefaCriticaListada ==
    Respondido =>
        /\ \A i \in 1..Len(L.tarefas) :
              (CriticaAtrasada(L.tarefas[i], L.relogio.riscos) /\ L.tarefas[i].nome.tipo = "str")
                  => C9_Entradas(L.tarefas[i].nome.v) # {}
        /\ P = Cenario4 => Cardinality(C9_Entradas("Fundação")) = 1

\* a task is overdue on the day d, in the words of C10
C10_Atrasada(t, d) ==
    /\ ~IsNone(t.fim) /\ DateLt(Val(t.fim), d)
    /\ (IsNone(t.pct) \/ Val(t.pct).n < 100 * Val(t.pct).d)

\* the schedule contribution C10 states for the tasks ts on the day d
RECURSIVE C10_Soma(_, _)
C10_Soma(ts, d) ==
    IF ts = <<>> THEN 0
    ELSE LET t == Head(ts)
         IN  (IF C10_Atrasada(t, d) /\ t.critica THEN 3
              ELSE IF C10_Atrasada(t, d) THEN 1 ELSE 0)
             + (IF t.critica /\ ~IsNone(t.pct) /\ Val(t.pct).n < 30 * Val(t.pct).d THEN 1 ELSE 0)
             + C10_Soma(Tail(ts), d)

\* C10: with the schedule pack enabled the schedule contribution is the sum
\* over the tasks of +3 if overdue and critical, +1 if overdue and not
\* critical, and a further +1 if critical with a known percent-complete
\* below 30; a task is overdue iff its end date is strictly before the
\* evaluation date and its percent-complete is unknown or below 100.
C10_ContribuicaoCronograma ==
    Respondido /\ features.enable_schedule_pack =>
        /\ L.parcelas.cronograma = C10_Soma(L.tarefas, L.relogio.cronograma)
        /\ P = Cenario4 => L.parcelas.cronograma = 4

\* C10 witness: an overdue critical task below 30% beside a task that ends
\* on the evaluation date, which adds nothing
C10_Witness ==
    /\ Respondido
    /\ Len(L.tarefas) = 2
    /\ L.tarefas[1].critica /\ C10_Atrasada(L.tarefas[1], L.relogio.cronograma)
    /\ L.tarefas[1].pct = Some(Dec(20, 1))
    /\ L.tarefas[2].fim = Some(L.relogio.cronograma)
    /\ ~L.tarefas[2].critica /\ L.tarefas[2].pct = Some(Dec(20, 1))
    /\ L.parcelas.cronograma = 4

\* the financial snapshot and the baseline of the request, empty when absent
PedidoFin == IF IsNone(P.financeiro) THEN EmptyDict ELSE Val(P.financeiro)

PedidoBaseline == IF IsNone(P.baseline) THEN EmptyDict ELSE Val(P.baseline)

\* the amounts of C11 as the request gives them: variance-at-completion,
\* estimate-at-completion, committed budget, and the approved budget of the baseline
C11_VAC == to_number(Get(PedidoFin, "vac"))

C11_EAC == to_number(Get(PedidoFin, "eac"))

C11_Comprometido == to_number(Or(Get(PedidoFin, "capex_comp"), Get(PedidoFin, "capex comprometido")))

C11_Aprovado == to_number(BaselineCapex(PedidoBaseline))

\* a > b for two amounts that are both present
C11_Excede(a, b) == ~IsNone(a) /\ ~IsNone(b) /\ Val(a).n * Val(b).d > Val(b).n * Val(a).d

\* C11: with the finance pack enabled the financial contribution is +3 if
\* variance-at-completion is present and < 0, plus +2 if estimate-at-completion
\* and approved budget are both present and EAC > approved budget, plus +2 if
\* committed budget and approved budget are both present and committed >
\* approved budget; the three rules are independent and an absent value skips
\* only its own rule.  The approved budget is the one of the baseline.
C11_ContribuicaoFinanceira ==
    Respondido /\ features.enable_finance_pack =>
        L.parcelas.financeiro =
            (IF ~IsNone(C11_VAC) /\ Val(C11_VAC).n < 0 THEN 3 ELSE 0)
            + (IF C11_Excede(C11_EAC, C11_Aprovado) THEN 2 ELSE 0)
            + (IF C11_Excede(C11_Comprometido, C11_Aprovado) THEN 2 ELSE 0)

\* C11 witness: variance-at-completion is absent and the two budget rules still add 2 each
C11_Witness ==
    /\ Respondido
    /\ IsNone(C11_VAC)
    /\ C11_Excede(C11_EAC, C11_Aprovado)
    /\ C11_Excede(C11_Comprometido, C11_Aprovado)
    /\ L.parcelas.financeiro = 4

\* the normalized observations of the answered request
ObsNorm == normalize(Val(campos).observacoes)

\* 1 when the stem k occurs in the normalized observations
Presente(k) == IF Contains(k, ObsNorm) THEN 1 ELSE 0

\* the base contribution without the narrative part
C12_SemNarrativa ==
    PontosCPI(L.campos_num.cpi_num).score + PontosSPI(L.campos_num.spi_num).score
    + PontosGap(L.campos_num.avanco_fisico_num, L.campos_num.avanco_financeiro_num).score

\* the keywords present, counting cost-pressure as one keyword of eleven
C12_OnzePresentes ==
    Presente("atraso") + Presente("licenc") + Presente("embargo") + Presente("paralis")
    + Presente("fornecedor")
    + (IF Contains("pressao", ObsNorm) \/ Contains("custo", ObsNorm) THEN 1 ELSE 0)
    + Presente("multas") + Presente("sancao") + Presente("risco") + Presente("equip")
    + Presente("critico")

\* the keywords present among the twelve stems of the code
C12_DozePresentes ==
    Presente("atraso") + Presente("licenc") + Presente("embargo") + Presente("paralis")
    + Presente("fornecedor") + Presente("pressao") + Presente("custo")
    + Presente("multas") + Presente("sancao") + Presente("risco") + Presente("equip")
    + Presente("critico")

\* C12 as stated: the narrative contribution is min(4, number of distinct
\* keywords present) over the eleven keywords delay, licensing, embargo,
\* work-stoppage, supplier, cost-pressure, fines, sanctions, risk, equipment,
\* critical, each counting at most once.
C12_OnzeKeywords ==
    Respondido => L.parcelas.base = C12_SemNarrativa + Min(4, C12_OnzePresentes)

\* C12 amended: the narrative contribution is min(4, number of the twelve
\* stems atraso, licenc, embargo, paralis, fornecedor, pressao, custo, multas,
\* sancao, risco, equip, critico present in the normalized observations), each
\* stem counting by presence and at most once.
C12_DozeKeywords ==
    Respondido => L.parcelas.base = C12_SemNarrativa + Min(4, C12_DozePresentes)

\* C12 witness: a keyword repeated three times counts once
C12_Witness ==
    /\ Respondido
    /\ P.observacoes = Some("atraso, atraso e mais atraso")
    /\ L.parcelas.base = C12_SemNarrativa + 1

\* the indicator map of the request, empty when absent
PedidoInd == IF IsNone(P.indicadores) THEN EmptyDict ELSE Val(P.indicadores)

\* the contribution C13 states for one indicator of the request
C13_Pontos(k) ==
    LET v == to_number(Get(PedidoInd, k))
    IN  IF IsNone(v) THEN 0
        ELSE IF Val(v).n * 100 < 90 * Val(v).d THEN 3
        ELSE IF Val(v).n < Val(v).d THEN 1
        ELSE 0

\* C13: each of the four auxiliary indicators (ISP, IDP, IDCo, IDB) that is
\* present contributes +3 if < 0.90, +1 if 0.90 <= value < 1.00, +0 if >= 1.00;
\* the indicator contribution is the sum over the four, an absent indicator
\* contributes nothing, and the sum is in 0..12.
C13_ContribuicaoIndicadores ==
    Respondido =>
        /\ L.parcelas.indices
              = C13_Pontos("isp") + C13_Pontos("idp") + C13_Pontos("idco") + C13_Pontos("idb")
        /\ L.parcelas.indices \in 0..12

\* C13 witness: one indicator at 0.90 (+1), one absent, one at 1.00 (+0), one at 0.85 (+3)
C13_Witness ==
    /\ Respondido
    /\ Get(PedidoInd, "isp") = JStr("0,90")
    /\ "idp" \notin Chaves(PedidoInd)
    /\ Get(PedidoInd, "idco") = JNum(1, 1)
    /\ Get(PedidoInd, "idb") = JStr("0.85")
    /\ L.parcelas.indices = 4

\* every field of the canonical field-set other than the stakeholders is
\* the sentinel or an empty container
C14_TudoAusente ==
    LET c == Val(campos)
    IN  /\ \A f \in {"nome_projeto", "cpi", "spi", "avanco_fisico", "avanco_financeiro",
                     "tipo_contrato", "observacoes", "pilar", "objetivo",
                     "data_final_planejada", "escopo"} : c[f] = NaoInformado
        /\ \A f \in {"resumo_status", "planos_proximo_periodo", "pontos_atencao"} : c[f] = <<>>
        /\ \A f \in {"indicadores", "baseline", "financeiro"} : c[f] = EmptyDict
        /\ c.cronograma = CronogramaDe(<<>>)

\* the list is empty or holds only an owner line
C14_SoOwners(xs) ==
    \/ xs = <<>>
    \/ Len(xs) = 1 /\ Len(xs[1]) > 18 /\ SubSeq(xs[1], 1, 18) = "Owners sugeridos: "

\* C14: end-to-end scenario 2: when every field is absent or the "Não
\* informado" sentinel (empty lists/maps), the analysis completes with score
\* 0, classification "Baixo", inferred pillar None, an empty key-risk list, and
\* both next-step lists empty or holding at most an owner line.
C14_Cenario2 ==
    Respondido /\ C14_TudoAusente =>
        /\ S.score_risco = 0
        /\ S.classificacao_risco = "Baixo"
        /\ S.pilar_sugerido = None
        /\ S.riscos_chave = <<>>
        /\ C14_SoOwners(S.proximos_passos_recomendado)
        /\ C14_SoOwners(S.proximos_passos_atual)
        /\ Val(campos).stakeholders = NaoInformado =>
              S.proximos_passos_recomendado = <<>> /\ S.proximos_passos_atual = <<>>

\* C14 witness: a request that spells the sentinel out in every field is answered
C14_Witness ==
    /\ Respondido /\ C14_TudoAusente
    /\ P.cpi = Some(NaoInformado) /\ P.stakeholders = Some(NaoInformado)
    /\ S.score_risco = 0 /\ S.proximos_passos_atual = <<>>

\* the dict without its key k
Sem(dict, k) == JDict(SelectSeq(dict.v, LAMBDA p : p[1] # k))

\* a raw value that is given and cannot be read as a number, or as a date
Ilegivel(j) == j.tipo = "str" /\ IsNone(to_number(j))

DataIlegivel(j) == j.tipo = "str" /\ IsNone(parse_date(j))

\* the request p with one unreadable index or progress field left out
C15_SemEscalar(p) ==
    {[p EXCEPT ![f] = None] :
        f \in {g \in {"cpi", "spi"} : ~IsNone(p[g]) /\ IsNone(to_number(JStr(Val(p[g]))))}}
    \cup
    {[p EXCEPT ![f] = None] :
        f \in {g \in {"avanco_fisico", "avanco_financeiro"} :
                  ~IsNone(p[g]) /\ IsNone(percent_to_number(JStr(Val(p[g]))))}}

\* the request p with one unreadable entry of the map under `campo` left out
C15_SemChave(p, campo, chaves) ==
    IF IsNone(p[campo]) THEN {}
    ELSE {[p EXCEPT ![campo] = Some(Sem(Val(p[campo]), k))] :
             k \in {x \in chaves \cap Chaves(Val(p[campo])) : Ilegivel(Get(Val(p[campo]), x))}}

\* the task dicts of the request p
C15_Tarefas(p) ==
    IF IsNone(p.cronograma) \/ Get(Val(p.cronograma), "tarefas").tipo # "list" THEN <<>>
    ELSE IF TarefasLevanta(Get(Val(p.cronograma), "tarefas")) THEN <<>>
    ELSE Get(Val(p.cronograma), "tarefas").v

\* the request p with one unreadable percent-complete or end date of a task left out
C15_SemTarefa(p) ==
    {[p EXCEPT !.cronograma =
          Some(CronogramaDe([C15_Tarefas(p) EXCEPT
                                 ![ik[1]] = Sem(C15_Tarefas(p)[ik[1]], ik[2])]))] :
        ik \in {x \in (1..Len(C15_Tarefas(p))) \X {"pct", "fim"} :
                   /\ x[2] \in Chaves(C15_Tarefas(p)[x[1]])
                   /\ IF x[2] = "pct" THEN Ilegivel(Get(C15_Tarefas(p)[x[1]], "pct"))
                      ELSE DataIlegivel(Get(C15_Tarefas(p)[x[1]], "fim"))}}

\* the keys of the financial snapshot and of the indicator map that hold numbers
ChavesFinanceiro == {"vac", "eac", "capex_comp", "capex comprometido", "capex_aprovado"}

ChavesIndicadores == {"isp", "idp", "idco", "idb"}

\* the requests that differ from p in one unreadable field, which they leave out
C15_Variantes(p) ==
    C15_SemEscalar(p) \cup C15_SemChave(p, "indicadores", ChavesIndicadores)
    \cup C15_SemChave(p, "financeiro", ChavesFinanceiro) \cup C15_SemTarefa(p)

\* score, classification, inferred pillar, divergence flag and key-risk list of a response
C15_Resumo(r) ==
    <<r.score_risco, r.classificacao_risco, r.pilar_sugerido, r.pilar_divergente, r.riscos_chave>>

\* C15: unparseable input is equivalent to absence: for each numeric,
\* percentage or date field, the analysis of a request whose raw value cannot
\* be parsed yields the same score, classification, inferred pillar,
\* divergence flag and key-risk list as the analysis of the same request with
\* that field absent.
C15_IlegivelComoAusente ==
    Respondido =>
        \A q \in C15_Variantes(P) :
            C15_Resumo(analisar(CamposDe(q), L.relogio).saida) = C15_Resumo(S)

\* the part of C15 the code keeps: the equivalence for every field but a
\* committed budget given under both of its keys
C15_ForaDoAlias ==
    Respondido =>
        \A q \in C15_Variantes(P) \ C15_SemChave(P, "financeiro",
                     IF "capex comprometido" \in Chaves(PedidoFin) THEN {"capex_comp"} ELSE {}) :
            C15_Resumo(analisar(CamposDe(q), L.relogio).saida) = C15_Resumo(S)

\* an answered request with an unreadable field whose variant was compared
C15_Comparado == Respondido /\ C15_Variantes(P) # {}

\* the track holds an entry that contains the text k
Contem(trilha, k) == \E i \in 1..Len(trilha) : Contains(k, trilha[i])

\* the condition-to-action mapping of C16 on one track
C16_Trilha(trilha) ==
    /\ Abaixo(L.campos_num.cpi_num, targets.cpi) => Contem(trilha, "Change Control Board")
    /\ Abaixo(L.campos_num.spi_num, targets.spi) => Contem(trilha, "Replanejar caminho crítico")
    /\ (~IsNone(L.gap_pf) /\ BinGeInt(Val(L.gap_pf), 8))
           => Contem(trilha, "critérios de medição físico x financeiro")
    /\ Contains("fornecedor", ObsNorm) => Contem(trilha, "fornecedor")
    /\ Contains("equip", ObsNorm) => Contem(trilha, "equip")
    /\ (Contains("licenc", ObsNorm) \/ Contains("embargo", ObsNorm) \/ Contains("paralis", ObsNorm))
           => Contem(trilha, "Acionar frente regulatória")

\* C16: both next-step tracks apply the same condition-to-action mapping and
\* each condition alone triggers its action: a cost index below 0.90 the
\* cost-containment/baseline-review action, a schedule index below 0.95 the
\* critical-path replanning action, a progress gap >= 8pp a measurement-audit
\* action, and observations that mention supplier, equipment, or
\* licensing/embargo/stoppage the corresponding contingency action.
C16_CondicaoAcao ==
    Respondido =>
        C16_Trilha(S.proximos_passos_recomendado) /\ C16_Trilha(S.proximos_passos_atual)

\* the part of C16 the code keeps: the progress gap and the supplier mention
\* each trigger their action alone, on both tracks
C16_GapEFornecedor ==
    Respondido =>
        \A trilha \in {S.proximos_passos_recomendado, S.proximos_passos_atual} :
            /\ (~IsNone(L.gap_pf) /\ BinGeInt(Val(L.gap_pf), 8))
                   => Contem(trilha, "critérios de medição físico x financeiro")
            /\ Contains("fornecedor", ObsNorm) => Contem(trilha, "fornecedor")

\* the three pillar-specific actions, by the stem that triggers each
AcoesDePilar ==
    <<<<"excelencia", "Implantar rituais semanais de performance com metas desdobradas e RACI claro (D+7).">>,
      <<"cliente", "Mapear jornada do cliente e ajustar SLAs de comunicação/serviço (D+15).">>,
      <<"alocacao", "Revisar business case (VPL/TIR ajustados a risco) e repriorizar CAPEX (D+20).">>>>

NaoDePilar(x) == \A i \in 1..Len(AcoesDePilar) : x # AcoesDePilar[i][2]

\* the condition-driven actions and the owner line of a track
C17_SemPilar(trilha) == SelectSeq(trilha, NaoDePilar)

\* the pillar-specific actions of the track are those of the driving pillar
C17_Dirigida(trilha, pilar) ==
    \A i \in 1..Len(AcoesDePilar) :
        Contains(AcoesDePilar[i][1], normalize(pilar))
            <=> (\E j \in 1..Len(trilha) : trilha[j] = AcoesDePilar[i][2])

\* the driver of Track A: the inferred pillar, else the resolved pillar
C17_PilarA == IF Inferido THEN Val(S.pilar_sugerido) ELSE S.pilar_final

\* what C17 states of the two tracks of a response
C17_Trilhas ==
    /\ C17_Dirigida(S.proximos_passos_recomendado, C17_PilarA)
    /\ C17_Dirigida(S.proximos_passos_atual, S.pilar_declarado)
    /\ C17_SemPilar(S.proximos_passos_recomendado) = C17_SemPilar(S.proximos_passos_atual)
    /\ normalize(C17_PilarA) = normalize(S.pilar_declarado)
           => S.proximos_passos_recomendado = S.proximos_passos_atual

\* C17: Track A (recommended) is generated with the inferred pillar as
\* driver, falling back to the resolved pillar when nothing is inferred, and
\* Track B (current) with the declared pillar; for the same request the two
\* tracks contain exactly the same condition-driven actions and owner line and
\* can differ only in pillar-specific actions, so they are identical whenever
\* the two driving pillars normalize to the same pillar.
C17_DuasTrilhas == Respondido => C17_Trilhas

\* the part of C17 the code keeps: the statement for the requests whose two
\* tracks were generated on the same day
C17_MesmoDia == Respondido /\ L.relogio.recomendado = L.relogio.atual => C17_Trilhas


\* the stakeholders string of the request, "Não informado" when absent
C18_Stakeholders == Val(campos).stakeholders

\* the parts of s around the first separator of seps, in priority order,
\* that occurs in s; s itself when none occurs
RECURSIVE C18_Partes(_, _)
C18_Partes(s, seps) ==
    IF seps = <<>> THEN <<s>>
    ELSE IF Contains(Head(seps), s) THEN Split(s, Head(seps))
    ELSE C18_Partes(s, Tail(seps))

C18_Nome(x) == x # ""

\* the trimmed, non-empty names, at most three of them
C18_Nomes(s, seps) ==
    LET nomes == SelectSeq(StripAll(C18_Partes(s, seps)), C18_Nome)
    IN  SubSeq(nomes, 1, IF Len(nomes) < 3 THEN Len(nomes) ELSE 3)

\* the owners lines a track is to hold under the separators seps
C18_Esperada(seps) ==
    IF C18_Stakeholders = NaoInformado \/ C18_Nomes(C18_Stakeholders, seps) = <<>> THEN <<>>
    ELSE <<"Owners sugeridos: " \o Join(", ", C18_Nomes(C18_Stakeholders, seps)) \o ".">>

C18_DeOwners(x) == Len(x) >= 18 /\ SubSeq(x, 1, 18) = "Owners sugeridos: "

\* both tracks hold exactly the owners lines expected, at their end
C18_Linha(seps) ==
    \A trilha \in {S.proximos_passos_recomendado, S.proximos_passos_atual} :
        /\ SelectSeq(trilha, C18_DeOwners) = C18_Esperada(seps)
        /\ C18_Esperada(seps) # <<>> => trilha[Len(trilha)] = C18_Esperada(seps)[1]

\* C18 as stated: the owners line of each track is derived by splitting the
\* stakeholders string on the first separator, in the priority order
\* semicolon, comma, newline, pipe, that occurs in it, dropping empty names and
\* listing at most the first three names; no owners line when stakeholders
\* is absent.
C18_OwnersComPipe == Respondido => C18_Linha(<<";", ",", "\n", "|">>)

\* C18 amended: the separators are, in priority order, semicolon, comma, the
\* two characters backslash and n, and newline (a pipe does not separate);
\* names are trimmed, empty names dropped, at most the first three listed;
\* no owners line when stakeholders is absent or holds no name.
C18_OwnersLine == Respondido => C18_Linha(<<";", ",", "\\n", "\n">>)

\* answered: five names under two separators, split on the semicolon only and
\* cut to the first three
C18_Witness ==
    /\ Respondido
    /\ C18_Stakeholders = "Ana; Bruno; Carla; Davi, Eva"
    /\ S.proximos_passos_atual = <<"Owners sugeridos: Ana, Bruno, Carla.">>


\* the lessons of a category, by the positions they hold in the answer
C19_DaCategoria(cat) ==
    {i \in 1..Len(S.licoes_aprendidas) : S.licoes_aprendidas[i].categoria = cat}

\* the critical tasks overdue on the day the lessons are generated
C19_Vencidas ==
    {i \in 1..Len(L.tarefas) :
        L.tarefas[i].critica /\ C10_Atrasada(L.tarefas[i], L.relogio.licoes)}

\* the category of each triggering condition of C19, with the condition
C19_Condicoes ==
    {<<"Financeiro/Controle",
       ~IsNone(L.campos_num.cpi_num)
           /\ 100 * Val(L.campos_num.cpi_num).n < 90 * Val(L.campos_num.cpi_num).d>>,
     <<"Prazo/Planejamento",
       ~IsNone(L.campos_num.spi_num)
           /\ 100 * Val(L.campos_num.spi_num).n < 95 * Val(L.campos_num.spi_num).d>>,
     <<"Execução/Medição",
       ~IsNone(L.gap_pf) /\ BinGeInt(Val(L.gap_pf), 15)>>,
     <<"Planejamento/Execução", C19_Vencidas # {}>>}

\* the owner C19 states: the first parsed stakeholder, else the fallback
C19_Owner ==
    IF C18_Nomes(C18_Stakeholders, <<";", ",", "\\n", "\n">>) = <<>>
           \/ C18_Stakeholders = NaoInformado
        THEN "PMO/Projeto"
    ELSE C18_Nomes(C18_Stakeholders, <<";", ",", "\\n", "\n">>)[1]

\* C19: the lessons-learned generator emits at most five records, one for
\* each triggering condition that holds (cost index below 0.90, schedule
\* index below 0.95, progress gap >= 15pp, the first critical overdue task in
\* schedule order) and none for a condition that does not hold; every
\* record's owner is the first parsed stakeholder, or "PMO/Projeto" when no
\* stakeholder is given.
C19_LicoesAprendidas ==
    Respondido =>
        /\ Len(S.licoes_aprendidas) <= 5
        /\ \A cc \in C19_Condicoes :
               Cardinality(C19_DaCategoria(cc[1])) = IF cc[2] THEN 1 ELSE 0
        /\ Len(S.licoes_aprendidas) = Cardinality({cc \in C19_Condicoes : cc[2]})
        /\ \A i \in C19_DaCategoria("Planejamento/Execução") :
               \E k \in C19_Vencidas :
                   /\ \A j \in C19_Vencidas : k <= j
                   /\ S.licoes_aprendidas[i].problema
                          = "Tarefa crítica atrasada: " \o PyStr(L.tarefas[k].nome) \o "."
        /\ \A i \in 1..Len(S.licoes_aprendidas) : S.licoes_aprendidas[i].owner = C19_Owner

\* answered: the four conditions hold, two critical tasks are overdue, the
\* answer holds four lessons owned by the first stakeholder
C19_Witness ==
    /\ Respondido
    /\ Cardinality(C19_Vencidas) = 2
    /\ Len(S.licoes_aprendidas) = 4
    /\ S.licoes_aprendidas[4].problema = "Tarefa crítica atrasada: Fundação."
    /\ S.licoes_aprendidas[1].owner = "Bia"


\* the parts of a response C20 speaks of
C20_Resultado(s) ==
    <<s.score_risco, s.classificacao_risco, s.pilar_declarado, s.pilar_sugerido,
      s.pilar_final, s.pilar_divergente, s.riscos_chave>>

\* the step is a run of _analisar
C20_Analise == analises' = analises + 1

\* the step analyses again the fields of the answered request, and every
\* read of the date returns what it returned to the analysis before
C20_Repetida ==
    /\ Respondido
    /\ C20_Analise
    /\ campos' = campos
    /\ ~IsNone(locais')
    /\ Val(locais').relogio = L.relogio

\* C20: idempotence: for a fixed evaluation date, analysing the same
\* canonical field-set twice yields identical score, classification,
\* declared/inferred/final pillar, divergence flag and key-risk list; no state
\* written by one analysis is read by another: an analysis leaves the
\* module-level dicts it reads as it found them.
C20_Idempotencia ==
    [][/\ C20_Analise => features' = features /\ targets' = targets
       /\ C20_Repetida => C20_Resultado(Val(saida')) = C20_Resultado(S)]_vars

\* the schedule of the request holds a task that ends on the day the request
\* arrived, and the request was analysed twice within that day: the task is
\* not yet overdue in either analysis
C20_Witness ==
    /\ analises = 2
    /\ Respondido
    /\ \E i \in 1..Len(Tarefas(Val(campos))) : Tarefas(Val(campos))[i].fim = Some(DiaInicial)
    /\ \A x \in DOMAIN L.relogio : L.relogio[x] = DiaInicial
    /\ hoje = DiaInicial
    /\ features = FEATURES
    /\ targets = TARGETS

\* a keyword of the list occurs in the normalized text of the answered request
C21_Palavra(ks) == \E i \in 1..Len(ks) : Contains(ks[i], TextoBase(Val(campos)))

\* the value is known and below num/den
C21_AbaixoDe(v, num, den) == ~IsNone(v) /\ den * Val(v).n < num * Val(v).d

\* the auxiliary indicators of the answered request that are below 1.00
C21_IndicesAbaixo ==
    {k \in {"isp", "idp", "idco", "idb"} : C21_AbaixoDe(L.indicadores[k], 1, 1)}

C21_Exc ==
    (IF C21_Palavra(ExcKeywords) THEN 2 ELSE 0)
    + (IF C21_AbaixoDe(L.campos_num.cpi_num, 90, 100) \/ C21_AbaixoDe(L.campos_num.spi_num, 95, 100)
           THEN 2 ELSE 0)
    + Cardinality(C21_IndicesAbaixo)

C21_Cli == IF C21_Palavra(CliKeywords) THEN 2 ELSE 0

\* the approved budget of the financial snapshot, as a number
C21_Aprovado == to_number(Get(Val(campos).financeiro, "capex_aprovado"))

\* the Capital score when the bonus needs the approved budget to be `aprovado`
C21_Cap(aprovado) ==
    (IF C21_Palavra(CapKeywords) THEN 2 ELSE 0)
    + (IF C21_Palavra(RetornoKeywords) \/ aprovado THEN 1 ELSE 0)

\* the ranges C21 derives
C21_Faixas ==
    /\ L.pilar_scores.exc \in 0..8
    /\ L.pilar_scores.cli \in {0, 2}
    /\ L.pilar_scores.cap \in 0..3

\* C21 as stated: Excellence = 2 for an excellence keyword, + 2 once if the
\* cost index is below 0.90 or the schedule index below 0.95, + 1 for each
\* auxiliary indicator below 1.00; Customer = 2 for a customer keyword;
\* Capital = 2 for a capital keyword, + 1 if a return/NPV/IRR/payback keyword
\* is present or the approved budget of the financial snapshot is present
\* and numeric.  Excellence is in 0..8, Customer in {0,2}, Capital in 0..3.
C21_PilarScores ==
    Respondido =>
        /\ L.pilar_scores = [exc |-> C21_Exc, cli |-> C21_Cli,
                             cap |-> C21_Cap(~IsNone(C21_Aprovado))]
        /\ C21_Faixas

\* everything C21 states but the bonus of an approved budget of zero: the
\* scores with the bonus given for a numeric approved budget other than zero
C21_AprovadoNaoNulo ==
    Respondido =>
        /\ L.pilar_scores = [exc |-> C21_Exc, cli |-> C21_Cli,
                             cap |-> C21_Cap(~IsNone(C21_Aprovado) /\ Val(C21_Aprovado).n # 0)]
        /\ C21_Faixas


\* a keyword of the list occurs in the text strategy_fit reads
C22_Palavra(ks) == \E i \in 1..Len(ks) : Contains(ks[i], TextoFit(Val(campos)))

\* the three contributions C22 states
C22_Exc ==
    (IF C22_Palavra(FitExcKeywords) THEN 20 ELSE 0)
    + (IF C21_AbaixoDe(L.campos_num.cpi_num, 90, 100) THEN 10 ELSE 0)
    + (IF C21_AbaixoDe(L.campos_num.spi_num, 95, 100) THEN 10 ELSE 0)
    + 5 * Cardinality(C21_IndicesAbaixo)

C22_Cli == IF C22_Palavra(FitCliKeywords) THEN 20 ELSE 0

C22_Cap == IF C22_Palavra(FitCapKeywords) THEN 20 ELSE 0

\* the contribution of the dominant pillar among the contributions fs
C22_Top(fs) ==
    IF fs.exc >= fs.cli /\ fs.exc >= fs.cap THEN fs.exc
    ELSE IF fs.cli >= fs.cap THEN fs.cli ELSE fs.cap

\* the contribution of a pillar, by its name
C22_De(fs, pilar) ==
    IF pilar = Excelencia THEN fs.exc ELSE IF pilar = Cliente THEN fs.cli ELSE fs.cap

\* the score and the pillar C22 states for the contributions fs
C22_Fit(fs, fit) ==
    /\ Val(fit.score) \in 0..100
    /\ fs.exc + fs.cli + fs.cap = 0 => fit.score = Some(0) /\ IsNone(fit.pilar_sugerido)
    /\ fs.exc + fs.cli + fs.cap > 0 =>
           /\ ~IsNone(fit.pilar_sugerido)
           /\ Val(fit.pilar_sugerido) \in {Excelencia, Cliente, Capital}
           /\ C22_De(fs, Val(fit.pilar_sugerido)) = C22_Top(fs)
           /\ Val(fit.score) * (fs.exc + fs.cli + fs.cap) <= 100 * C22_Top(fs)
           /\ (Val(fit.score) + 1) * (fs.exc + fs.cli + fs.cap) > 100 * C22_Top(fs)

\* C22: the strategy-fit score is the dominant pillar's contribution divided
\* by the total contribution of the three pillars, as an integer percentage
\* in 0..100 (+20 for a keyword hit of the pillar's category, Excellence +10
\* for each of cost and schedule index below target and +5 for each auxiliary
\* indicator below 1.00); when the total is zero the score is 0 and no
\* pillar is suggested.
C22_StrategyFit ==
    Respondido /\ features.enable_strategy_fit =>
        /\ L.fit_scores = [exc |-> C22_Exc, cli |-> C22_Cli, cap |-> C22_Cap]
        /\ C22_Fit(L.fit_scores, S.strategy_fit)

\* answered: the customer keyword (20) dominates a cost index below target
\* (10): 20 of 30 is 66 percent
C22_Witness ==
    /\ Respondido
    /\ L.fit_scores = [exc |-> 10, cli |-> 20, cap |-> 0]
    /\ S.strategy_fit.score = Some(66)
    /\ S.strategy_fit.pilar_sugerido = Some(Cliente)


\* the strategic analysis of the answered request
C23_Analise == Val(S.analise_estrategica)

\* the strategy-fit score less the penalties, clamped to 0..100
C23_Ajustado ==
    LET bruto == Val(S.strategy_fit.score)
                 - (IF S.pilar_divergente = JBool(TRUE) THEN 10 ELSE 0)
                 - (IF S.classificacao_risco = "Alto" THEN 20
                    ELSE IF S.classificacao_risco = "Médio" THEN 10 ELSE 0)
    IN  IF bruto < 0 THEN 0 ELSE IF bruto > 100 THEN 100 ELSE bruto

\* the route of the decision table keyed by risk tier and alignment tier
C23_Rota(risco, alinhamento) ==
    IF risco = "Alto" THEN (IF alinhamento = "Alinhado" THEN "Seguir com salvaguardas"
                            ELSE "Pausar/Pivotar")
    ELSE IF risco = "Médio" THEN "Seguir"
    ELSE IF alinhamento = "Alinhado" THEN "Acelerar" ELSE "Seguir"

\* the adjusted score and the route, as C23 states them
C23_ScoreERota ==
    /\ C23_Analise.score_interno = C23_Ajustado
    /\ C23_Analise.score_interno \in 0..100
    /\ C23_Analise.alinhamento \in {"Alinhado", "Parcialmente alinhado", "Não alinhado"}
    /\ C23_Analise.rota_recomendada = C23_Rota(S.classificacao_risco, C23_Analise.alinhamento)
    /\ C23_Analise.rota_recomendada
           \in {"Acelerar", "Seguir", "Seguir com salvaguardas", "Pausar/Pivotar"}

\* the same analysis of the same request with a scope of the core portfolio
C23_NoCore ==
    analise_estrategica_textual([Val(campos) EXCEPT !.escopo = "Subestação"], S.strategy_fit,
                                S.classificacao_risco, S.pilar_divergente,
                                S.pilar_declarado, S.pilar_sugerido)

\* C23 as stated: the adjusted score is the strategy-fit score penalized for
\* pillar divergence and for high risk classification, clamped to 0..100; the
\* adjusted score alone determines the alignment label (two analyses with
\* the same adjusted score carry the same label), and the pair (risk tier,
\* alignment tier) alone determines the route, always one of the four routes.
C23_SoOScore ==
    Respondido /\ features.enable_strategic_analysis =>
        /\ C23_ScoreERota
        /\ C23_NoCore.score_interno = C23_Analise.score_interno
               => C23_NoCore.alinhamento = C23_Analise.alinhamento

\* C23 amended: the adjusted score together with the portfolio fit determines
\* the alignment label: "Alinhado" needs a score of 60 or more and a portfolio
\* fit of Core or Opcionalidade, "Parcialmente alinhado" a score of 40 or
\* more, and "Não alinhado" is the label below 40.
C23_ScoreEPortfolio ==
    Respondido /\ features.enable_strategic_analysis =>
        /\ C23_ScoreERota
        /\ C23_Analise.alinhamento =
               (IF C23_Ajustado >= 60 /\ C23_Analise.portfolio_fit \in {"Core", "Opcionalidade"}
                    THEN "Alinhado"
                ELSE IF C23_Ajustado >= 40 THEN "Parcialmente alinhado"
                ELSE "Não alinhado")

\* answered: a risk "Médio" and a divergence take 20 off a fit of 100, and an
\* undefined portfolio fit keeps the label at "Parcialmente alinhado"
C23_Witness ==
    /\ Respondido
    /\ S.strategy_fit.score = Some(100)
    /\ S.classificacao_risco = "Médio"
    /\ S.pilar_divergente = JBool(TRUE)
    /\ C23_Analise.score_interno = 80
    /\ C23_Analise.portfolio_fit = "Indefinido"
    /\ C23_Analise.alinhamento = "Parcialmente alinhado"
    /\ C23_Analise.rota_recomendada = "Seguir"


\* the focus pillar C29 states
C29_Foco ==
    IF Inferido THEN Val(S.pilar_sugerido)
    ELSE IF Declarado THEN Val(P.pilar)
    ELSE "Não informado"

\* C29: the focus pillar of the strategic analysis is the inferred pillar
\* when one exists, else the declared pillar, else "Não informado"; after
\* case/diacritic normalization it differs from the final pillar exactly
\* when the divergence flag is true, and equals it in every other case.
C29_PilarFoco ==
    Respondido /\ features.enable_strategic_analysis =>
        /\ C23_Analise.pilar_estrategico_foco = C29_Foco
        /\ normalize(C23_Analise.pilar_estrategico_foco) # normalize(S.pilar_final)
               <=> S.pilar_divergente = JBool(TRUE)

\* answered: the declared pillar prevails as final pillar, the inferred one
\* is the focus, and the flag is true
C29_Witness ==
    /\ Respondido
    /\ S.pilar_divergente = JBool(TRUE)
    /\ S.pilar_final = "Foco no Cliente"
    /\ C23_Analise.pilar_estrategico_foco = Excelencia

\* answered: declared and inferred pillar differ in case and spacing only;
\* the flag is false and focus and final pillar are equal once normalized
C29_WitnessIgual ==
    /\ Respondido
    /\ S.pilar_divergente = JBool(FALSE)
    /\ S.pilar_final = "foco no cliente "
    /\ C23_Analise.pilar_estrategico_foco = Cliente


\* the orderings of the task list ts
C24_Permutacoes(ts) ==
    LET n == Len(ts)
    IN  {[i \in 1..n |-> ts[f[i]]] : f \in {g \in [1..n -> 1..n] : \A i, j \in 1..n : g[i] = g[j] => i = j}}

\* the base score of the answered request once its cost index reads v
C24_BaseComCPI(v) ==
    calcular_score_risco_base(CamposNum([Val(campos) EXCEPT !.cpi = v]), Val(campos).observacoes).score

\* the base score of the answered request once its observations read o
C24_BaseComObs(o) == calcular_score_risco_base(L.campos_num, o).score

\* C24: the risk score is additive and order-independent: the total is the
\* sum of the separately computed contributions (cost index, schedule index,
\* progress gap, keywords, auxiliary indicators, schedule tasks, financial
\* baseline); changing the input of one source changes the total by exactly
\* the change of that source's contribution; every permutation of the task
\* list gives the same score.
C24_Aditivo ==
    Respondido =>
        LET c == Val(campos)
            cpi == PontosCPI(L.campos_num.cpi_num).score
            spi == PontosSPI(L.campos_num.spi_num).score
            gap == PontosGap(L.campos_num.avanco_fisico_num, L.campos_num.avanco_financeiro_num).score
            kw == PontosKeywords(c.observacoes).score
            ind == risco_por_indices(L.indicadores).score
            cron == IF features.enable_schedule_pack
                        THEN risco_por_cronograma(L.tarefas, L.relogio.cronograma).score ELSE 0
            fin == IF features.enable_finance_pack
                       THEN risco_por_baseline_financeiro(L.baseline, L.fin).score ELSE 0
        IN  /\ S.score_risco = cpi + spi + gap + kw + ind + cron + fin
            /\ L.parcelas = [base |-> cpi + spi + gap + kw, indices |-> ind,
                             cronograma |-> cron, financeiro |-> fin]
            /\ \A v \in {"0.80", "0.87", "Não informado"} :
                   C24_BaseComCPI(v) - L.parcelas.base = PontosCPI(to_number(JStr(v))).score - cpi
            /\ \A o \in {"", "atraso e multa"} :
                   C24_BaseComObs(o) - L.parcelas.base = PontosKeywords(o).score - kw
            /\ \A ts \in C24_Permutacoes(L.tarefas) :
                   risco_por_cronograma(ts, L.relogio.cronograma).score = cron
            /\ L.tarefas # <<>> =>
                   cron - risco_por_cronograma(Tail(L.tarefas), L.relogio.cronograma).score
                       = risco_por_cronograma(<<Head(L.tarefas)>>, L.relogio.cronograma).score

\* answered: two tasks with different points, and a base, an indicator or a
\* financial contribution beside the schedule contribution
C24_Witness ==
    /\ Respondido
    /\ Len(L.tarefas) = 2
    /\ risco_por_cronograma(<<L.tarefas[1]>>, L.relogio.cronograma).score
           # risco_por_cronograma(<<L.tarefas[2]>>, L.relogio.cronograma).score
    /\ L.parcelas.base + L.parcelas.indices + L.parcelas.financeiro > 0
    /\ S.score_risco > L.parcelas.cronograma


\* the points a trace entry carries: the N of a trailing ": +N" or "(+N)"
C27_Pontos(e) ==
    LET n == Len(e)
    IN  IF n >= 4 /\ SubSeq(e, n - 3, n - 2) = "(+" /\ SubSeq(e, n, n) = ")"
               /\ SubSeq(e, n - 1, n - 1) \in Digits
            THEN DigitVal(SubSeq(e, n - 1, n - 1))
        ELSE IF n >= 4 /\ SubSeq(e, n - 3, n - 1) = ": +" /\ SubSeq(e, n, n) \in Digits
            THEN DigitVal(SubSeq(e, n, n))
        ELSE 0

\* e begins with p
C27_Inicia(p, e) == Len(e) >= Len(p) /\ SubSeq(e, 1, Len(p)) = p

\* the source a trace entry speaks for: 1 cost index, 2 schedule index,
\* 3 progress gap, 4 keywords, 5 indicators, 6 tasks, 7 financial; 0 for none
C27_Fonte(e) ==
    IF e \in {"CPI<0,85: +5", "0,85<=CPI<0,90: +3"} THEN 1
    ELSE IF e \in {"SPI<0,90: +5", "0,90<=SPI<0,95: +3"} THEN 2
    ELSE IF C27_Inicia("Gap físico x financeiro ", e) THEN 3
    ELSE IF C27_Inicia("Keywords observações ", e) THEN 4
    ELSE IF \E k \in {"ISP", "IDP", "IDCO", "IDB"} :
                e \in {k \o "<0,90: +3", "0,90<=" \o k \o "<1,00: +1", k \o ">=1,00: +0"} THEN 5
    ELSE IF C27_Inicia("Tarefa ", e) THEN 6
    ELSE IF e \in {"VAC < 0: +3", "EAC > CAPEX aprovado: +2", "Comprometido > Aprovado: +2"} THEN 7
    ELSE 0

\* the sum of the points of the entries of tr whose source is in fs
RECURSIVE C27_Soma(_, _)
C27_Soma(tr, fs) ==
    IF tr = <<>> THEN 0
    ELSE (IF C27_Fonte(Head(tr)) \in fs THEN C27_Pontos(Head(tr)) ELSE 0) + C27_Soma(Tail(tr), fs)

\* the number of entries of tr that carry points and whose source is f
C27_Entradas(tr, f) == Cardinality({i \in 1..Len(tr) : C27_Fonte(tr[i]) = f /\ C27_Pontos(tr[i]) > 0})

\* the number of times the schedule rules add to the score for the tasks ts on the day d
RECURSIVE C27_Acrescimos(_, _)
C27_Acrescimos(ts, d) ==
    IF ts = <<>> THEN 0
    ELSE (IF C10_Atrasada(Head(ts), d) THEN 1 ELSE 0)
         + (IF Head(ts).critica /\ ~IsNone(Head(ts).pct)
                  /\ Val(Head(ts).pct).n < 30 * Val(Head(ts).pct).d THEN 1 ELSE 0)
         + C27_Acrescimos(Tail(ts), d)

\* 1 if the contribution n is one, else 0
C27_Um(n) == IF n > 0 THEN 1 ELSE 0

\* C27: the score equals the sum of the "+N" points carried by the trace
\* entries of the analysis; every score contribution appends exactly one
\* trace entry with its points, in the order cost, schedule, gap, keywords,
\* indicators, tasks, financial; no trace entry carries points that were not
\* added to the score.
C27_TraceEScore ==
    Respondido =>
        LET tr == S.trace
            cpi == PontosCPI(L.campos_num.cpi_num).score
            spi == PontosSPI(L.campos_num.spi_num).score
            gap == PontosGap(L.campos_num.avanco_fisico_num, L.campos_num.avanco_financeiro_num).score
            kw == L.parcelas.base - cpi - spi - gap
            vac == IF ~IsNone(C11_VAC) /\ Val(C11_VAC).n < 0 THEN 1 ELSE 0
            eac == IF C11_Excede(C11_EAC, C11_Aprovado) THEN 1 ELSE 0
            comp == IF C11_Excede(C11_Comprometido, C11_Aprovado) THEN 1 ELSE 0
        IN  /\ S.score_risco = C27_Soma(tr, 0..7)
            /\ C27_Soma(tr, {0}) = 0
            /\ C27_Soma(tr, {1}) = cpi /\ C27_Entradas(tr, 1) = C27_Um(cpi)
            /\ C27_Soma(tr, {2}) = spi /\ C27_Entradas(tr, 2) = C27_Um(spi)
            /\ C27_Soma(tr, {3}) = gap /\ C27_Entradas(tr, 3) = C27_Um(gap)
            /\ C27_Soma(tr, {4}) = kw /\ C27_Entradas(tr, 4) = C27_Um(kw)
            /\ C27_Soma(tr, {5}) = L.parcelas.indices
            /\ C27_Entradas(tr, 5) = C27_Um(C13_Pontos("isp")) + C27_Um(C13_Pontos("idp"))
                                       + C27_Um(C13_Pontos("idco")) + C27_Um(C13_Pontos("idb"))
            /\ C27_Soma(tr, {6}) = L.parcelas.cronograma
            /\ C27_Entradas(tr, 6) = C27_Acrescimos(L.tarefas, L.relogio.cronograma)
            /\ C27_Soma(tr, {7}) = L.parcelas.financeiro
            /\ C27_Entradas(tr, 7) = vac + eac + comp
            /\ \A i, j \in 1..Len(tr) :
                   i < j /\ C27_Fonte(tr[i]) > 0 /\ C27_Fonte(tr[j]) > 0
                       => C27_Fonte(tr[i]) <= C27_Fonte(tr[j])

\* answered: the trace holds two task entries or more, an entry of another
\* source that carries points, and an entry that carries none
C27_Witness ==
    /\ Respondido
    /\ C27_Entradas(S.trace, 6) >= 2
    /\ C27_Entradas(S.trace, 1) + C27_Entradas(S.trace, 2) + C27_Entradas(S.trace, 3)
           + C27_Entradas(S.trace, 4) + C27_Entradas(S.trace, 5) + C27_Entradas(S.trace, 7) >= 1
    /\ \E i \in 1..Len(S.trace) : C27_Fonte(S.trace[i]) = 0


\* the approved budget of the normalized financial snapshot of the answer
C28_Aprovado == to_number(Get(L.fin, "capex_aprovado"))

\* the financial contribution when the two budget rules compare against the amount aprovado
C28_Contribuicao(aprovado) ==
    (IF ~IsNone(C11_VAC) /\ Val(C11_VAC).n < 0 THEN 3 ELSE 0)
    + (IF C11_Excede(C11_EAC, aprovado) THEN 2 ELSE 0)
    + (IF C11_Excede(C11_Comprometido, aprovado) THEN 2 ELSE 0)

\* C28: the approved budget that risk scoring compares against EAC and the
\* committed budget is the approved budget of the normalized financial
\* snapshot (financeiro.capex_aprovado, else baseline.custo.capex_aprovado):
\* whenever it is present and EAC (or the committed budget) exceeds it, the
\* +2 contribution is added, wherever the approved budget was supplied.
C28_OrcamentoNormalizado ==
    Respondido /\ features.enable_finance_pack =>
        /\ Get(L.fin, "capex_aprovado")
               = Or(Get(PedidoFin, "capex_aprovado"), BaselineCapex(PedidoBaseline))
        /\ L.parcelas.financeiro = C28_Contribuicao(C28_Aprovado)

\* the statement of C28 for the requests that give the approved budget in the baseline
C28_NoBaseline ==
    Respondido /\ features.enable_finance_pack /\ ~IsNone(C11_Aprovado) =>
        /\ C28_Aprovado = C11_Aprovado
        /\ L.parcelas.financeiro = C28_Contribuicao(C28_Aprovado)

\* answered: the approved budget comes in the financial snapshot only and
\* both EAC and the committed budget exceed it
C28_SoNoFinanceiro ==
    /\ Respondido
    /\ IsNone(C11_Aprovado) /\ ~IsNone(C28_Aprovado)
    /\ C11_Excede(C11_EAC, C28_Aprovado) /\ C11_Excede(C11_Comprometido, C28_Aprovado)
    /\ L.parcelas.financeiro = 0


\* every read of the calendar made for the answer returned the same day
C30_UmaData == \A k \in DOMAIN L.relogio : L.relogio[k] = L.relogio.cronograma

\* the tasks risk scoring counted as overdue and critical
C30_Pontuadas ==
    {i \in 1..Len(L.tarefas) :
        L.tarefas[i].critica /\ C10_Atrasada(L.tarefas[i], L.relogio.cronograma)}

\* what C30 states of the overdue verdicts of an answer: the lesson on a
\* delayed critical task names the first task scored as overdue and critical,
\* and there is one exactly when a task was scored so
C30_Veredictos ==
    /\ (C19_DaCategoria("Planejamento/Execução") # {}) <=> (C30_Pontuadas # {})
    /\ \A i \in C19_DaCategoria("Planejamento/Execução") :
           \E k \in C30_Pontuadas :
               /\ \A j \in C30_Pontuadas : k <= j
               /\ S.licoes_aprendidas[i].problema
                      = "Tarefa crítica atrasada: " \o PyStr(L.tarefas[k].nome) \o "."

\* C30: within one analysis every component that decides whether a task is
\* overdue uses the same evaluation date, so the verdicts agree even if the
\* calendar date changes while the request is processed: the task scored as
\* overdue and critical is the one reported as delayed, and a task not scored
\* as overdue never appears in a lesson.
C30_MesmaData ==
    Respondido /\ features.enable_schedule_pack /\ features.enable_lessons_learned =>
        /\ C30_UmaData
        /\ C30_Veredictos

\* the statement of C30 for the answers produced within one calendar day
C30_SemVirada ==
    Respondido /\ features.enable_schedule_pack /\ features.enable_lessons_learned
        /\ C30_UmaData => C30_Veredictos

\* answered across midnight: a critical task that ends on the day of the
\* scoring adds nothing to the score and is the subject of a lesson
C30_Virada ==
    /\ Respondido
    /\ L.relogio.licoes # L.relogio.cronograma
    /\ C30_Pontuadas = {}
    /\ L.parcelas.cronograma = 0
    /\ C19_DaCategoria("Planejamento/Execução") # {}


\* the lines of the text of the request
C26_Linhas == splitlines(P.texto)

\* the positions of the bullets of the text that state name, end date,
\* percent-complete and criticality right under the label of the tasks block
C26_Completas ==
    {k \in 2..Len(C26_Linhas) : C26_Linhas[k - 1] = "Tarefas:" /\ C26_Linhas[k] = LinhaCompleta}

\* the task carries the values the bullet LinhaCompleta states
C26_Carrega(t) ==
    /\ t.nome = JStr("Fundação")
    /\ t.fim = Some([y |-> 2024, m |-> 6, d |-> 1])
    /\ t.pct = Some(Dec(50, 1))
    /\ t.critica

\* C26: in the free-text tasks block each bullet line is parsed into its
\* name, start, end, percent and criticality sub-fields: a single bullet line
\* that states name, end date, percent-complete and criticality yields one
\* task carrying all of those values, so that a task entered as free text
\* can be scored as overdue and critical.
C26_TarefaCompleta ==
    Respondido /\ C26_Completas # {} =>
        /\ \E i \in 1..Len(L.tarefas) : C26_Carrega(L.tarefas[i])
        /\ features.enable_schedule_pack =>
               \E i \in 1..Len(S.trace) : S.trace[i] = "Tarefa crítica atrasada: Fundação (+3)"

\* what the parser does instead: a task of free text carries the one
\* sub-field its bullet begins with, so none is both dated and critical and
\* none is scored as overdue and critical
C26_UmSubCampo ==
    Respondido =>
        /\ \A i \in 1..Len(L.tarefas) :
               /\ ~(L.tarefas[i].critica /\ ~IsNone(L.tarefas[i].fim))
               /\ ~(~IsNone(L.tarefas[i].pct) /\ ~IsNone(L.tarefas[i].fim))
        /\ \A i \in 1..Len(S.trace) : ~C27_Inicia("Tarefa crítica atrasada", S.trace[i])

\* answered: the bullet that states all four values gave a task whose name
\* is the whole bullet, without end date, percent or criticality
C26_SoNome ==
    /\ Respondido
    /\ C26_Completas # {}
    /\ Len(L.tarefas) >= 1
    /\ L.tarefas[1].nome = JStr("Fundação; fim: 01/06/2024; pct: 50; critica: sim")
    /\ IsNone(L.tarefas[1].fim) /\ IsNone(L.tarefas[1].pct) /\ ~L.tarefas[1].critica
    /\ S.score_risco = 0


\* the text is being scanned: parse_from_text has begun and _analisar has not answered
C25_EmParse == ~IsNone(campos) /\ IsNone(saida)

\* the line after i lines is blank, or a recognized label
C25_Branca(lines, i) == Strip(lines[i + 1]) = ""

C25_Label(lines, i) == ~C25_Branca(lines, i) /\ is_label(Strip(lines[i + 1])).has

\* the field a block label fills, "" for the other labels
C25_Campo(nk) ==
    CASE nk \in {"resumo status", "resumo da situacao atual"} -> "resumo_status"
      [] nk \in {"planos proximo periodo", "planos para o proximo periodo"} -> "planos_proximo_periodo"
      [] nk = "pontos de atencao" -> "pontos_atencao"
      [] nk = "tarefas" -> "cronograma"
      [] nk = "financeiro" -> "financeiro"
      [] OTHER -> ""

\* the number of lines before the line that ends the block whose body
\* begins after j lines: the first blank line or label, else the end
C25_Fim(lines, j) ==
    CHOOSE k \in j..Len(lines) :
        /\ k = Len(lines) \/ C25_Branca(lines, k) \/ C25_Label(lines, k)
        /\ \A x \in j..(k - 1) : ~C25_Branca(lines, x) /\ ~C25_Label(lines, x)

\* what the block of the field collects from the lines of its body
C25_Itens(campo, corpo) ==
    CASE campo = "cronograma" -> CronogramaDe(TarefasDoBloco(corpo, 0, <<>>).itens)
      [] campo = "financeiro" -> FinanceiroDoBloco(corpo, 0, EmptyDict).itens
      [] OTHER -> ColetarDe(corpo, 0, <<>>).itens

\* what C25 states of one pass of the scan, from the fields c and the
\* position i to the fields c2 and the position i2
C25_Passo(lines, c, i, c2, i2) ==
    /\ i2 > i /\ i2 <= Len(lines)
    /\ IF C25_Label(lines, i) /\ C25_Campo(is_label(Strip(lines[i + 1])).nk) # ""
           THEN /\ i2 = C25_Fim(lines, i + 1)
                /\ c2 = [c EXCEPT ![C25_Campo(is_label(Strip(lines[i + 1])).nk)] =
                            C25_Itens(C25_Campo(is_label(Strip(lines[i + 1])).nk),
                                      SubSeq(lines, i + 2, i2))]
       ELSE /\ i2 = i + 1
            /\ Strip(lines[i + 1]) = "CPI: 0,80" => c2 = [c EXCEPT !.cpi = "0,80"]
            /\ ~C25_Label(lines, i) => c2 = c

\* every pass of the scan is as C25 states
C25_Passos ==
    [][C25_EmParse /\ C25_EmParse'
           => C25_Passo(Val(locais).lines, Val(campos), Val(locais).i,
                        Val(campos'), Val(locais').i)]_vars


\* parse_from_text has left its loop: the scan is past the last line
C25_Terminado == ~IsNone(locais) /\ (Respondido \/ Val(locais).i >= Len(Val(locais).lines))

\* C25: in free-text parsing a labeled block (status, plans, attention
\* points, tasks, financial) collects the lines after its label up to, and
\* not including, the first blank line or the next recognized label; the
\* label line that ends a block is not consumed by the block but is processed
\* as its own label; the line scan always advances, so parsing terminates
\* for every input text.
C25_BlocosETermino == C25_Passos /\ <>C25_Terminado

\* the scan is over: a status block of two bullets was ended by the label of
\* the cost index, which was processed as a label
C25_Witness ==
    /\ C25_EmParse
    /\ Val(locais).i = Len(Val(locais).lines)
    /\ Val(locais).lines[1] = "Resumo status:"
    /\ Len(Val(locais).lines) >= 4 /\ Val(locais).lines[4] = "CPI: 0,80"
    /\ Len(Val(campos).resumo_status) = 2
    /\ Val(campos).cpi = "0,80"

=============================================================================
